---- MODULE Spec2Model ----
(***************************************************************************)
(* A model of the YASF scene loader: the resource loading pipeline of      *)
(* MyContents (globals, cameras, textures, materials, graph parse) and the *)
(* node graph builder GraphParser with the helpers it calls                *)
(* (applyTransformations, createPrimitive, createLight,                    *)
(* applyMaterialToNode) and the three.js object operations they rely on    *)
(* (Object3D.add, Object3D.clone, LOD.addLevel, Object3D.traverse).        *)
(*                                                                         *)
(* The asynchronous pipeline is modelled step by step: one action per      *)
(* handler run between two suspension points.  parseGraph is synchronous   *)
(* and is one action; its recursion is the recursion of the operators      *)
(* createNode / handleChild / createLOD below, which thread the parser's   *)
(* state (heap of three.js objects, node cache, materials mapping) through *)
(* a record.                                                               *)
(***************************************************************************)
EXTENDS Integers, Sequences, FiniteSets, TLC

VARIABLES
    data,          \* the scene description handed to onSceneLoaded
    pc,            \* position of the pipeline (onSceneLoaded and what it awaits)
    abortCause,    \* why the promise of onSceneLoaded was rejected, if it was
    phases,        \* the phases of onAfterSceneLoadedAndBeforeRender started so far
    texPromise,    \* per texture id: state of the promise pushed to texturePromises
    texStage,      \* per texture id: which loader is in flight
    textures,      \* MyContents.textures: texture id -> texture
    matPromise,    \* per material id: state of the promise pushed to materialPromises
    matMap,        \* per material id: the map captured by the MyMaterials constructor
    materials,     \* MyContents.materials: material id -> material object
    matObjs,       \* the THREE.Material objects, by identity
    heap,          \* the THREE.Object3D objects, by identity
    processedNodes,\* GraphParser.processedNodes: the cache keys seen
    nodes,         \* GraphParser.nodes: cache key -> group
    parseExc,      \* the exception that escaped parseGraph, if any
    nodeCalls,     \* history: every return of createNode
    attaches,      \* history: every attachment made for a noderef
    writes,        \* history: every write to textures / materials / nodes
    appCallbacks,  \* number of times onSceneLoadedApp was called
    cameras,       \* MyApp.cameras: camera id -> camera
    activeCameraName, \* MyApp.activeCameraName
    guiLightGroup, \* the light group the GUI toggles: one createLight returned, or Null
    lastVisible,   \* the argument of the last synchronizeLightVisibility call, if any
    texRepeat,     \* per texture loaded: the repeat factor of the texture, (s, t)
    call,          \* the validator call made last: its name and arguments
    result         \* what that call returned

vars == <<data, pc, abortCause, phases, texPromise, texStage, textures,
          matPromise, matMap, materials, matObjs, heap, processedNodes, nodes,
          parseExc, nodeCalls, attaches, writes, appCallbacks, cameras,
          activeCameraName, guiLightGroup, lastVisible, texRepeat, call, result>>

\* the variables the pipeline leaves alone
toolVars == <<guiLightGroup, lastVisible, call, result>>

-----------------------------------------------------------------------------
(* Bounds of the model *)

\* longest textures section enumerated
MaxTextures == 2
\* longest materials section enumerated
MaxMaterials == 2
\* longest nodesList of the root node enumerated
MaxRefs == 2
\* longest cameras section enumerated
MaxCameras == 2

-----------------------------------------------------------------------------
(* JavaScript values *)

JsUndef == [t |-> "undefined", b |-> FALSE, s |-> "", n |-> 0]
JsBool(v) == [t |-> "boolean", b |-> v, s |-> "", n |-> 0]
JsStr(v) == [t |-> "string", b |-> FALSE, s |-> v, n |-> 0]
JsNum(v) == [t |-> "number", b |-> FALSE, s |-> "", n |-> v]

\* String.prototype.toLowerCase over the strings the scenes use
ToLowerCase(s) ==
    CASE s = "TRUE" -> "true"
      [] s = "True" -> "true"
      [] OTHER -> s

\* the strings whose trim() is empty
BlankStrings == {"", " "}

\* null (no object, no material, no texture)
Null == 0
NoTexture == ""

validateString(value) ==
    IF value.t = "string" /\ value.s \notin BlankStrings THEN value.s ELSE ""

parseBoolean(value, defaultValue) ==
    IF value.t = "boolean" THEN value.b
    ELSE IF value.t = "string" THEN ToLowerCase(value.s) \in {"true", "1"}
    ELSE IF value.t = "number" THEN value.n # 0
    ELSE defaultValue

\* parseFloat / isNaN on the values the scenes use: a number parses to itself,
\* the strings of the scenes are not numeric
toValidFloat(value, defaultValue) ==
    IF value.t = "number" THEN value.n ELSE defaultValue

validateAngle(value, minimumAngle, maximumAngle, defaultValue) ==
    LET angle == toValidFloat(value, defaultValue)
    IN IF angle <= minimumAngle \/ angle >= maximumAngle THEN defaultValue ELSE angle

\* toValidOpacity rejecting what is out of range: the default, not the bound
OpacityOrDefault(value, defaultValue) ==
    IF value.t = "number" /\ value.n >= 0 /\ value.n <= 1 THEN value.n
    ELSE defaultValue

\* validateLeftRight giving the defaults for two values of the same sign
LeftRightOrDefault(left, right, defaultLeft, defaultRight) ==
    IF left = 0 \/ right = 0 \/ (left < 0) = (right < 0)
    THEN <<defaultLeft, defaultRight>>
    ELSE <<left, right>>

validateNear(value, defaultValue) ==
    LET near == toValidFloat(value, defaultValue)
    IN IF near >= 0 THEN near ELSE defaultValue

validateFar(value, near, defaultValue) ==
    LET far == toValidFloat(value, defaultValue)
    IN IF far > near THEN far ELSE defaultValue

\* Math.abs
Abs(n) == IF n < 0 THEN -n ELSE n

\* validateLeftRight(left, right, defaultLeft, defaultRight): the pair returned
validateLeftRight(left, right, defaultLeft, defaultRight) ==
    IF left = 0 \/ right = 0 THEN <<defaultLeft, defaultRight>>
    ELSE IF (left < 0 /\ right <= 0) \/ (left > 0 /\ right >= 0)
    THEN <<-Abs(left), Abs(right)>>
    ELSE <<left, right>>

\* validateBottomTop(bottom, top, defaultBottom, defaultTop): the pair returned
validateBottomTop(bottom, top, defaultBottom, defaultTop) ==
    IF bottom = 0 \/ top = 0 THEN <<defaultBottom, defaultTop>>
    ELSE IF (bottom < 0 /\ top <= 0) \/ (bottom > 0 /\ top >= 0)
    THEN <<-Abs(bottom), Abs(top)>>
    ELSE <<bottom, top>>

validateDecay(value, defaultValue) ==
    LET decay == toValidFloat(value, defaultValue)
    IN IF decay < 0 \/ decay > 2 THEN defaultValue ELSE decay

validatePenumbra(value, defaultValue) ==
    LET penumbra == toValidFloat(value, defaultValue)
    IN IF penumbra < 0 \/ penumbra > 1 THEN defaultValue ELSE penumbra

Min(a, b) == IF a < b THEN a ELSE b
Max(a, b) == IF a > b THEN a ELSE b

\* isNaN(num) ? defaultValue : Math.max(0, Math.min(num, 1))
toValidOpacity(value, defaultValue) ==
    IF value.t = "number" THEN Max(0, Min(value.n, 1)) ELSE defaultValue

validateShadowProperty(value, defaultValue) == toValidFloat(value, defaultValue)

\* a JavaScript number that may be NaN
Float(n) == [nan |-> FALSE, n |-> n]
NaN == [nan |-> TRUE, n |-> 0]

\* parseFloat: a number parses to itself; a boolean and the strings of the
\* scenes, none of them numeric, parse to NaN
parseFloat(value) == IF value.t = "number" THEN Float(value.n) ELSE NaN

\* the divisor of parseColor: a channel is given in 0..255
ChannelMax == 255

\* Math.max(0, Math.min(1, x / 255)), in 255ths: NaN goes through division,
\* Math.min and Math.max as NaN
ClampChannel(x) == IF x.nan THEN NaN ELSE Float(Max(0, Min(ChannelMax, x.n)))

\* a colour of the scene file: the object may be missing, and each channel
\* undefined
Color(r, g, b) == [defined |-> TRUE, r |-> r, g |-> g, b |-> b]
NoColor == [defined |-> FALSE, r |-> JsUndef, g |-> JsUndef, b |-> JsUndef]

\* color?.r ?? 0
ChannelOrZero(color, channel) ==
    IF color.defined /\ channel.t # "undefined" THEN channel ELSE JsNum(0)

\* parseColor(color): the three channels of the THREE.Color, in 255ths
parseColor(color) ==
    <<ClampChannel(parseFloat(ChannelOrZero(color, color.r))),
      ClampChannel(parseFloat(ChannelOrZero(color, color.g))),
      ClampChannel(parseFloat(ChannelOrZero(color, color.b)))>>

-----------------------------------------------------------------------------
(* Scene descriptions *)

TextureData(id, filepath, isVideo, mipmap0) ==
    [id |-> id, filepath |-> filepath, isVideo |-> isVideo, mipmap0 |-> mipmap0]

TexKinds == {"single", "nopath", "video", "mip"}

TexOfKind(id, kind) ==
    CASE kind = "single" -> TextureData(id, JsStr("img.jpg"), JsUndef, JsUndef)
      [] kind = "nopath" -> TextureData(id, JsStr(" "), JsUndef, JsUndef)
      [] kind = "video"  -> TextureData(id, JsStr("clip.mp4"), JsBool(TRUE), JsUndef)
      [] kind = "mip"    -> TextureData(id, JsStr("img.jpg"), JsUndef, JsStr("img0.jpg"))

MaterialData(id, shininess, textureref) ==
    [id |-> id, shininess |-> shininess, textureref |-> textureref,
     texlength_s |-> JsUndef, texlength_t |-> JsUndef]

MatKinds == {"plain", "t1", "tq", "neg"}

MatOfKind(id, kind) ==
    CASE kind = "plain" -> MaterialData(id, JsUndef, "")
      [] kind = "t1"    -> MaterialData(id, JsNum(10), "t1")
      [] kind = "tq"    -> MaterialData(id, JsNum(0), "tq")
      [] kind = "neg"   -> MaterialData(id, JsNum(-1), "t1")

TexId(i) == "t" \o ToString(i)
MatId(i) == "m" \o ToString(i)

TexturesDataSet ==
    UNION {{[i \in 1..k |-> TexOfKind(TexId(i), f[i])] : f \in [1..k -> TexKinds]}
           : k \in 0..MaxTextures}

MaterialsDataSet ==
    UNION {{[i \in 1..k |-> MatOfKind(MatId(i), f[i])] : f \in [1..k -> MatKinds]}
           : k \in 0..MaxMaterials}

\* a camera of the cameras section; lengths are in tenths of a unit (the
\* default near plane 0.1 is 1), angles in degrees
CameraData(id, type, near, far, angle, left, right, bottom, top) ==
    [id |-> id, type |-> type, near |-> near, far |-> far, angle |-> angle,
     left |-> left, right |-> right, bottom |-> bottom, top |-> top]

CameraKinds == {"persp", "untyped", "ortho", "odd"}

CameraOfKind(id, kind) ==
    CASE kind = "persp" ->
           CameraData(id, "perspective", JsNum(5), JsNum(900), JsNum(60),
                      JsUndef, JsUndef, JsUndef, JsUndef)
      [] kind = "untyped" ->
           CameraData(id, "", JsUndef, JsUndef, JsUndef, JsUndef, JsUndef, JsUndef,
                      JsUndef)
      [] kind = "ortho" ->
           CameraData(id, "orthogonal", JsNum(-3), JsNum(4), JsUndef,
                      JsNum(30), JsNum(70), JsNum(0), JsNum(40))
      [] kind = "odd" ->
           CameraData(id, "fisheye", JsNum(5), JsNum(900), JsNum(60),
                      JsUndef, JsUndef, JsUndef, JsUndef)

CamId(i) == "c" \o ToString(i)

\* lists of camera ids that use the id of the built-in camera
PerspectiveIdLists == {<<"Perspective">>, <<"Perspective", "c2">>, <<"c1", "Perspective">>}

\* the cameras sections enumerated: the "initial" property and the cameras
CamerasDataSet ==
    UNION {{[initial |-> init, list |-> [i \in 1..k |-> CameraOfKind(CamId(i), f[i])]]
              : f \in [1..k -> CameraKinds], init \in {"", "c1", "c2", "cq"}}
           : k \in 0..MaxCameras}
    \cup {[initial |-> init,
           list |-> [i \in 1..Len(ids) |-> CameraOfKind(ids[i], "persp")]]
             : ids \in PerspectiveIdLists, init \in {"", "Perspective"}}

NoCameras == [initial |-> "", list |-> <<>>]

DefaultTextures == <<TexOfKind("t1", "single")>>
DefaultMaterials == <<MatOfKind("m1", "t1"), MatOfKind("m2", "plain")>>

-----------------------------------------------------------------------------
(* The graph section.  Every object of the graph (a node, a direct child, an *)
(* LOD description) is a record of the same shape; a field the JSON does not *)
(* give holds the "absent" value of its kind.                                *)

NoTransforms == [present |-> FALSE, isArray |-> FALSE, entries |-> <<>>]
TransformList(entries) == [present |-> TRUE, isArray |-> TRUE, entries |-> entries]
\* a transforms value that is an object, not a list: { "translate": ... }
TransformObject == [present |-> TRUE, isArray |-> FALSE, entries |-> <<>>]

Transform(type, x, y, z) ==
    [type |-> type, hasAmount |-> TRUE, x |-> JsNum(x), y |-> JsNum(y), z |-> JsNum(z)]
TransformNoAmount(type) ==
    [type |-> type, hasAmount |-> FALSE, x |-> JsUndef, y |-> JsUndef, z |-> JsUndef]

NoList == [isArray |-> FALSE, items |-> <<>>]
ListOf(items) == [isArray |-> TRUE, items |-> items]

NoLodNodes == [present |-> FALSE, entries |-> <<>>]
LodEntry(nodeId, mindist) == [nodeId |-> nodeId, mindist |-> mindist]

\* a point of a primitive; lengths of the geometry are in halves of a unit
\* (the default 0.5 is 1) and z is 0 throughout
Point(x, y) == [x |-> JsNum(x), y |-> JsNum(y)]
NoPoint == [x |-> JsUndef, y |-> JsUndef]

\* bbox is the extent (x, y) of the geometry three.js builds for a cylinder, a
\* sphere or a NURBS surface
EmptyData ==
    [defined |-> TRUE, isNull |-> FALSE, type |-> "", nodeId |-> "",
     transforms |-> NoTransforms, materialref |-> "",
     castshadow |-> JsUndef, receiveshadow |-> JsUndef, enabled |-> JsUndef,
     hasChildren |-> FALSE, direct |-> <<>>, nodesList |-> NoList,
     lodsList |-> NoList, lodNodes |-> NoLodNodes,
     shadowleft |-> JsUndef, shadowright |-> JsUndef,
     shadowbottom |-> JsUndef, shadowtop |-> JsUndef,
     xy1 |-> NoPoint, xy2 |-> NoPoint,
     xyz1 |-> NoPoint, xyz2 |-> NoPoint, xyz3 |-> NoPoint,
     parts_u |-> JsUndef, parts_v |-> JsUndef, bbox |-> <<4, 4>>]

UndefinedData == [EmptyData EXCEPT !.defined = FALSE]
NullData == [EmptyData EXCEPT !.isNull = TRUE]

NodeData(transforms, materialref, castshadow, receiveshadow, direct, nodesList, lodsList) ==
    [EmptyData EXCEPT !.transforms = transforms, !.materialref = materialref,
                      !.castshadow = castshadow, !.receiveshadow = receiveshadow,
                      !.hasChildren = TRUE, !.direct = direct,
                      !.nodesList = nodesList, !.lodsList = lodsList]

ChildOfType(type) == [EmptyData EXCEPT !.type = type]
NodeRef(nodeId) == [EmptyData EXCEPT !.type = "noderef", !.nodeId = nodeId]
LodData(entries) == [EmptyData EXCEPT !.lodNodes = [present |-> TRUE, entries |-> entries]]

\* a direct child: the key it is stored under, and its value
Child(id, value) == [id |-> id, value |-> value]

\* graphData[nodeId]
Lookup(graphData, nodeId) ==
    IF nodeId \in DOMAIN graphData.table THEN graphData.table[nodeId] ELSE UndefinedData

NodeIds == {"a", "b", "zz"}

\* the nodesList values enumerated for the root node
RefLists == UNION {[1..k -> NodeIds] : k \in 0..MaxRefs}

\* what is malformed in a scene, if anything
BadKinds == {"noAmount", "notList", "nullChild", "cycle", "noGraph", "noRootId",
             "rootMissing"}

\* the lodNodes lists enumerated for the LOD description l1: distances
\* ascending, descending, negative, equal in absolute value, and entries without nodeId or with a
\* mindist that is not a number
LodKinds == {"asc", "desc", "neg", "tie", "bad"}

LodNodesOfKind(kind) ==
    CASE kind = "asc" -> <<LodEntry("zz", JsNum(0)), LodEntry("b", JsNum(10))>>
      [] kind = "desc" -> <<LodEntry("b", JsNum(10)), LodEntry("a", JsNum(0))>>
      [] kind = "neg" -> <<LodEntry("a", JsNum(-5)), LodEntry("b", JsNum(3))>>
      [] kind = "tie" -> <<LodEntry("a", JsNum(-5)), LodEntry("b", JsNum(5))>>
      [] kind = "bad" -> <<LodEntry("", JsNum(0)), LodEntry("b", JsStr("10")),
                           LodEntry("a", JsNum(4)), LodEntry("zz", JsNum(1)),
                           LodEntry("b", JsNum(2))>>

GraphParams ==
    [rootMat : {"", "m1"}, rootCast : {JsUndef}, rootRefs : RefLists,
     rootLods : {<<>>, <<"l1">>}, aMat : {"", "m2", "mq"}, aCast : {JsUndef},
     aRefs : {<<>>, <<"b">>}, prim : {"rectangle", "polygon"}, bad : {"none"},
     lodKind : {"asc"}]
    \cup
    [rootMat : {"", "m1"}, rootCast : {JsUndef, JsBool(TRUE)}, rootRefs : RefLists,
     rootLods : {<<>>}, aMat : {""}, aCast : {JsUndef, JsStr("True")},
     aRefs : {<<>>, <<"b">>}, prim : {"rectangle"}, bad : {"none"},
     lodKind : {"asc"}]
    \cup
    [rootMat : {"", "m1"}, rootCast : {JsUndef}, rootRefs : RefLists,
     rootLods : {<<"l1">>}, aMat : {""}, aCast : {JsUndef},
     aRefs : {<<"b">>}, prim : {"rectangle"}, bad : {"none"},
     lodKind : LodKinds]
    \cup
    [rootMat : {"", "m1"}, rootCast : {JsUndef}, rootRefs : {<<>>, <<"a">>},
     rootLods : {<<"l1", "l1">>}, aMat : {""}, aCast : {JsUndef},
     aRefs : {<<"b">>}, prim : {"rectangle"}, bad : {"none"},
     lodKind : {"asc", "desc"}]
    \cup
    [rootMat : {"m1"}, rootCast : {JsUndef}, rootRefs : RefLists,
     rootLods : {<<>>}, aMat : {""}, aCast : {JsUndef},
     aRefs : {<<"b">>}, prim : {"rectangle"}, bad : BadKinds,
     lodKind : {"asc"}]

GraphOf(p) ==
    LET aTransforms ==
            CASE p.bad = "noAmount" -> TransformList(<<TransformNoAmount("translate")>>)
              [] p.bad = "notList" -> TransformObject
              [] OTHER -> TransformList(<<Transform("translate", 1, 2, 3),
                                          Transform("rotate", 90, 0, 400)>>)
        aDirect ==
            IF p.bad = "nullChild"
            THEN <<Child("hole", NullData), Child("plate", ChildOfType("rectangle"))>>
            ELSE <<Child("lamp", ChildOfType("spotlight")),
                   Child("plate", ChildOfType("rectangle")),
                   Child("odd", ChildOfType("cone")),
                   Child("glow", ChildOfType("arealight"))>>
        root == NodeData(TransformList(<<Transform("scale", 2, 2, 2)>>), p.rootMat,
                         p.rootCast, JsUndef,
                         <<Child("sun", ChildOfType("pointlight"))>>,
                         ListOf(p.rootRefs),
                         IF p.rootLods # <<>> THEN ListOf(p.rootLods) ELSE NoList)
        a == NodeData(aTransforms, p.aMat, p.aCast, JsBool(TRUE), aDirect,
                      ListOf(p.aRefs), NoList)
        b == NodeData(NoTransforms, "", JsUndef, JsUndef,
                      <<Child("shape", ChildOfType(p.prim))>>,
                      IF p.bad = "cycle" THEN ListOf(<<"b">>) ELSE NoList, NoList)
        l1 == LodData(LodNodesOfKind(p.lodKind))
        table == [id \in {"root", "a", "b", "l1"} |->
                    CASE id = "root" -> root [] id = "a" -> a [] id = "b" -> b
                      [] id = "l1" -> l1]
    IN [present |-> p.bad # "noGraph",
        rootid |-> CASE p.bad = "noRootId" -> ""
                     [] p.bad = "rootMissing" -> "zz"
                     [] OTHER -> "root",
        table |-> table]

DefaultGraph ==
    GraphOf([rootMat |-> "m1", rootCast |-> JsUndef, rootRefs |-> <<"a">>,
             rootLods |-> <<>>, aMat |-> "", aCast |-> JsUndef, aRefs |-> <<"b">>,
             prim |-> "polygon", bad |-> "none", lodKind |-> "asc"])

SceneData(texturesData, materialsData, graph) ==
    [textures |-> texturesData, materials |-> materialsData, graph |-> graph,
     cameras |-> NoCameras]

\* the scene descriptions explored: the resource sections vary with the graph
\* fixed, and the graph varies with the resource sections fixed
Scenes ==
    {SceneData(t, DefaultMaterials, DefaultGraph) : t \in TexturesDataSet}
    \cup {SceneData(DefaultTextures, m, DefaultGraph) : m \in MaterialsDataSet}
    \cup {SceneData(<<>>, DefaultMaterials, GraphOf(p)) : p \in GraphParams}
    \cup {[SceneData(<<>>, <<>>, DefaultGraph) EXCEPT !.cameras = c]
            : c \in CamerasDataSet}

-----------------------------------------------------------------------------
(* The parser's state while parseGraph runs: a record st with                *)
(*   heap, matObjs, materials, processedNodes, nodes  the program's state    *)
(*   nodeCalls, attaches, writes                      the histories          *)
(*   exc   the exception in flight ("none" when there is none)               *)
(*   ret   the value the last call returned                                  *)

\* depth of nested createNode calls the JavaScript call stack holds
MaxStack == 6

Return(st, value) == [st EXCEPT !.ret = value]
Throw(st, exception) == [st EXCEPT !.exc = exception, !.ret = Null]

RemoveFrom(seq, x) == SelectSeq(seq, LAMBDA y : y # x)

\* light.shadow.camera: the bounds of the frustum; an object that is not a
\* directional light has none, written as zeros
ShadowCamera(left, right, bottom, top) ==
    [left |-> left, right |-> right, bottom |-> bottom, top |-> top]

NoShadowCamera == ShadowCamera(0, 0, 0, 0)

\* new THREE.Object3D(): the fields the loader reads or writes
NewObject(kind) ==
    [kind |-> kind, nodeId |-> "", prim |-> "", name |-> "",
     material |-> Null, userMaterial |-> Null,
     castShadow |-> FALSE, receiveShadow |-> FALSE, visible |-> TRUE,
     children |-> <<>>, parent |-> Null, levels |-> <<>>, target |-> Null,
     shadowCamera |-> NoShadowCamera,
     position |-> <<0, 0, 0>>, rotation |-> <<0, 0, 0>>, scale |-> <<1, 1, 1>>]

\* the THREE.Scene of the application is the first object of the heap
SceneObject == 1

Alloc(st, object) ==
    [st EXCEPT !.heap = Append(@, object), !.ret = Len(st.heap) + 1]

\* Object3D.add: the object leaves its former parent
Add(st, parent, object) ==
    IF object = parent THEN st
    ELSE LET old == st.heap[object].parent
             h1 == IF old # Null
                   THEN [st.heap EXCEPT ![old].children = RemoveFrom(@, object)]
                   ELSE st.heap
             h2 == [h1 EXCEPT ![object].parent = parent]
         IN [st EXCEPT !.heap = [h2 EXCEPT ![parent].children = Append(@, object)]]

\* the index at which LOD.addLevel splices a level of this distance
RECURSIVE LevelIndex(_, _, _)
LevelIndex(levels, distance, l) ==
    IF l > Len(levels) \/ distance < levels[l].distance THEN l
    ELSE LevelIndex(levels, distance, l + 1)

InsertAt(seq, i, x) == SubSeq(seq, 1, i - 1) \o <<x>> \o SubSeq(seq, i, Len(seq))

\* addLevel without the sorting and the absolute value: the level is appended
\* with the distance given
AppendLevel(st, lod, object, distance) ==
    Add([st EXCEPT !.heap[lod].levels =
                      Append(@, [distance |-> distance, object |-> object])],
        lod, object)

\* LOD.addLevel(object, distance)
addLevel(st, lod, object, distance) ==
    LET d == Abs(distance)
        l == LevelIndex(st.heap[lod].levels, d, 1)
        s1 == [st EXCEPT !.heap[lod].levels =
                            InsertAt(@, l, [distance |-> d, object |-> object])]
    IN Add(s1, lod, object)

\* Object3D.traverse: the object and all its descendants
RECURSIVE Descendants(_, _)
Descendants(h, object) ==
    {object} \cup UNION {Descendants(h, h[object].children[i]) :
                            i \in 1..Len(h[object].children)}

\* synchronizeLightVisibility setting the group alone
GroupVisibleOnly(h, lightGroup, visible) ==
    [h EXCEPT ![lightGroup].visible = visible]

\* GraphParser.synchronizeLightVisibility(lightGroup, visible): every object
\* the traverse visits is an Object3D
synchronizeLightVisibility(h, lightGroup, visible) ==
    [o \in DOMAIN h |->
        IF o = lightGroup \/ o \in Descendants(h, lightGroup)
        THEN [h[o] EXCEPT !.visible = visible]
        ELSE h[o]]

\* Object3D.clone(true).  A mesh shares its material with its source; a LOD
\* clones its levels; a light with a target gets a clone of the target;
\* userData is copied by value (JSON), so the copy refers to no material object
RECURSIVE CloneDeep(_, _), CloneChildren(_, _, _, _), CloneLevels(_, _, _, _)
CloneDeep(st, object) ==
    LET src == st.heap[object]
        s1 == Alloc(st, [src EXCEPT !.children = <<>>, !.parent = Null,
                                    !.levels = <<>>, !.userMaterial = Null,
                                    !.target = Null])
        copy == s1.ret
        s2 == IF src.target # Null
              THEN LET t == CloneDeep(s1, src.target)
                   IN [t EXCEPT !.heap[copy].target = t.ret]
              ELSE s1
    IN IF src.kind = "LOD"
       THEN Return(CloneLevels(s2, copy, src.levels, 1), copy)
       ELSE Return(CloneChildren(s2, copy, src.children, 1), copy)

CloneChildren(st, copy, children, i) ==
    IF i > Len(children) THEN st
    ELSE LET c == CloneDeep(st, children[i])
         IN CloneChildren(Add(c, copy, c.ret), copy, children, i + 1)

CloneLevels(st, copy, levels, i) ==
    IF i > Len(levels) THEN st
    ELSE LET c == CloneDeep(st, levels[i].object)
         IN CloneLevels(addLevel(c, copy, c.ret, levels[i].distance), copy, levels, i + 1)

\* applyMaterialToNode(node, material, parentCastShadow, parentReceiveShadow)
applyMaterialToNode(st, node, material, parentCastShadow, parentReceiveShadow) ==
    LET reached == Descendants(st.heap, node)
    IN [st EXCEPT !.heap =
          [o \in DOMAIN st.heap |->
             IF o \in reached /\ st.heap[o].kind = "Mesh"
             THEN [st.heap[o] EXCEPT
                     !.material = material,
                     !.castShadow = parentCastShadow \/ @,
                     !.receiveShadow = parentReceiveShadow \/ @]
             ELSE st.heap[o]]]

\* a quotient of a length, kept in halves of a unit, by a number: num / 2 / den
Ratio(num, den) == [num |-> num, den |-> den]

\* the number 1 as such a quotient
One == Ratio(2, 1)

\* x || 1 for a quotient: 0 and NaN (a division by undefined) are falsy
OrOne(ratio) == IF ratio.num = 0 \/ ratio.den = 0 THEN One ELSE ratio

\* THREE.MathUtils.generateUUID for the n-th material made
Uuid(n) == "u" \o ToString(n)

\* new THREE.Material(...): the fields the loader reads or writes; texlength_s
\* and texlength_t are 0 for a material createThreeMaterialAsync did not make
NewMaterial(st, map, vertexColors, wireframe) ==
    LET n == Len(st.matObjs) + 1
    IN [st EXCEPT !.matObjs = Append(@, [uuid |-> Uuid(n), map |-> map,
                                          vertexColors |-> vertexColors,
                                          wireframe |-> wireframe,
                                          texlength_s |-> 0, texlength_t |-> 0]),
                  !.ret = n]

\* Material.clone(): a new material (new uuid) with the same settings and map
CloneMaterial(st, material) ==
    LET m == st.matObjs[material]
    IN NewMaterial(st, m.map, m.vertexColors, m.wireframe)

\* MyContents.defaultMaterial and MyContents.defaultMaterialVertex
DefaultMaterial == 1
DefaultMaterialVertex == 2

\* String(counter).padStart(2, '0')
PadStart2(counter) ==
    IF counter < 10 THEN "0" \o ToString(counter) ELSE ToString(counter)

\* UniqueId without its loop: the first candidate is taken as it is
FirstIdOnly(mapping, idBase, counter) == idBase \o "_" \o PadStart2(counter)

\* the id the loop of createPrimitive settles on: the first of idBase_01,
\* idBase_02, ... that the materials mapping does not hold
RECURSIVE UniqueId(_, _, _)
UniqueId(mapping, idBase, counter) ==
    IF (idBase \o "_" \o PadStart2(counter)) \in DOMAIN mapping
    THEN UniqueId(mapping, idBase, counter + 1)
    ELSE idBase \o "_" \o PadStart2(counter)

Put(mapping, key, value) ==
    [k \in DOMAIN mapping \cup {key} |-> IF k = key THEN value ELSE mapping[k]]

\* appMyContents.materials[id] = material
RegisterMaterial(st, id, material) ==
    [st EXCEPT !.materials = Put(@, id, material),
               !.writes = Append(@, [map |-> "materials", key |-> id])]

-----------------------------------------------------------------------------
(* applyTransformations(group, transforms).  Angles are kept in degrees: the *)
(* rotation stored is the validated angle d, standing for degToRad(d).       *)

\* ApplyTransform adding a translation to the position the group has
AccumulateTransform(st, group, transform) ==
    IF transform.type = "translate"
    THEN [st EXCEPT !.heap[group].position =
            <<@[1] + toValidFloat(transform.x, 0), @[2] + toValidFloat(transform.y, 0),
              @[3] + toValidFloat(transform.z, 0)>>]
    ELSE st

ApplyTransform(st, group, transform) ==
    IF transform.type \in {"translate", "rotate", "scale"} /\ ~transform.hasAmount
    THEN Throw(st, "TypeError")
    ELSE IF transform.type = "translate"
    THEN [st EXCEPT !.heap[group].position =
            <<toValidFloat(transform.x, 0), toValidFloat(transform.y, 0),
              toValidFloat(transform.z, 0)>>]
    ELSE IF transform.type = "rotate"
    THEN [st EXCEPT !.heap[group].rotation =
            <<validateAngle(transform.x, -360, 360, 0),
              validateAngle(transform.y, -360, 360, 0),
              validateAngle(transform.z, -360, 360, 0)>>]
    ELSE IF transform.type = "scale"
    THEN [st EXCEPT !.heap[group].scale =
            <<toValidFloat(transform.x, 1), toValidFloat(transform.y, 1),
              toValidFloat(transform.z, 1)>>]
    ELSE st

RECURSIVE ApplyEach(_, _, _, _)
ApplyEach(st, group, entries, i) ==
    IF i > Len(entries) \/ st.exc # "none" THEN st
    ELSE ApplyEach(ApplyTransform(st, group, entries[i]), group, entries, i + 1)

applyTransformations(st, group, transforms) ==
    IF ~transforms.isArray THEN Throw(st, "TypeError")
    ELSE ApplyEach(st, group, transforms.entries, 1)

-----------------------------------------------------------------------------
(* createPrimitive(primitiveData, material, appMyContents): the mesh made and *)
(* the material it is bound to.  ret is the mesh, or Null.                    *)

GeometryTypes == {"rectangle", "triangle", "box", "cylinder", "sphere", "nurbs"}

NewMesh(type, material) ==
    [NewObject("Mesh") EXCEPT !.prim = type, !.material = material]

\* the vertices of a triangle, with the defaults of createPrimitive
TriangleVertices(primitiveData) ==
    <<<<toValidFloat(primitiveData.xyz1.x, 0), toValidFloat(primitiveData.xyz1.y, 0)>>,
      <<toValidFloat(primitiveData.xyz2.x, 2), toValidFloat(primitiveData.xyz2.y, 0)>>,
      <<toValidFloat(primitiveData.xyz3.x, 1), toValidFloat(primitiveData.xyz3.y, 2)>>>>

\* boundingBox.max - boundingBox.min along one axis of a triangle
Spread(v, axis) ==
    Max(Max(v[1][axis], v[2][axis]), v[3][axis])
       - Min(Min(v[1][axis], v[2][axis]), v[3][axis])

\* geometry.computeBoundingBox(): boundingBox.max - boundingBox.min in x and y
Extent(primitiveData) ==
    CASE primitiveData.type \in {"rectangle", "box"} ->
           LET first == IF primitiveData.type = "rectangle" THEN primitiveData.xy1
                        ELSE primitiveData.xyz1
               second == IF primitiveData.type = "rectangle" THEN primitiveData.xy2
                         ELSE primitiveData.xyz2
               reach == IF primitiveData.type = "rectangle" THEN 1 ELSE 2
           IN <<Abs(toValidFloat(second.x, reach) - toValidFloat(first.x, -reach)),
                Abs(toValidFloat(second.y, reach) - toValidFloat(first.y, -reach))>>
      [] primitiveData.type = "triangle" ->
           <<Spread(TriangleVertices(primitiveData), 1),
             Spread(TriangleVertices(primitiveData), 2)>>
      [] OTHER -> primitiveData.bbox

\* the texture-repeat pass with the special handling of triangle and nurbs
\* taken: twice the area of the triangle is the cross product, the parts of
\* the surface default to 10
SpecialRepeat(primitiveData, texlength_s, texlength_t) ==
    CASE primitiveData.type = "triangle" ->
           LET v == TriangleVertices(primitiveData)
               area == Abs((v[2][1] - v[1][1]) * (v[3][2] - v[1][2])
                             - (v[2][2] - v[1][2]) * (v[3][1] - v[1][1])) \div 4
           IN <<Ratio(area, texlength_s), Ratio(area, texlength_t)>>
      [] primitiveData.type = "nurbs" ->
           <<Ratio(2 * toValidFloat(primitiveData.parts_u, 10), texlength_s),
             Ratio(2 * toValidFloat(primitiveData.parts_v, 10), texlength_t)>>
      [] OTHER ->
           <<OrOne(Ratio(Extent(primitiveData)[1], texlength_s)),
             OrOne(Ratio(Extent(primitiveData)[2], texlength_t))>>

\* what meshMaterial.map.repeat.set is called with: specialTextureHandling is
\* false for every kind, so the bounding box is used
MapRepeat(primitiveData, texlength_s, texlength_t) ==
    <<OrOne(Ratio(Extent(primitiveData)[1], texlength_s)),
      OrOne(Ratio(Extent(primitiveData)[2], texlength_t))>>

\* if (meshMaterial.map) { ... meshMaterial.map.repeat.set(...) }
RepeatPass(st, primitiveData, meshMaterial) ==
    IF st.matObjs[meshMaterial].map = NoTexture THEN st
    ELSE [st EXCEPT !.repeat =
            Put(@, st.matObjs[meshMaterial].map,
                MapRepeat(primitiveData, st.matObjs[meshMaterial].texlength_s,
                          st.matObjs[meshMaterial].texlength_t))]

createPrimitive(st, primitiveData, material) ==
    LET type == primitiveData.type
    IN IF type = "polygon"
       THEN LET s1 == IF material # Null
                      THEN LET c == CloneMaterial(st, material)
                           IN [c EXCEPT !.matObjs[c.ret].vertexColors = TRUE]
                      ELSE CloneMaterial(st, DefaultMaterialVertex)
                polygonMaterial == s1.ret
                id == UniqueId(s1.materials, "polygon", 1)
            IN Alloc(RegisterMaterial(s1, id, polygonMaterial),
                     NewMesh(type, polygonMaterial))
       ELSE IF type \in GeometryTypes
       THEN IF material # Null
            THEN Alloc(RepeatPass(st, primitiveData, material), NewMesh(type, material))
            ELSE LET s1 == CloneMaterial(st, DefaultMaterial)
                     meshMaterial == s1.ret
                     id == UniqueId(s1.materials, "default_mesh_material", 1)
                 IN Alloc(RepeatPass(RegisterMaterial(s1, id, meshMaterial),
                                     primitiveData, meshMaterial),
                          NewMesh(type, meshMaterial))
       ELSE Return(st, Null)

-----------------------------------------------------------------------------
(* createLight(lightData, lightId): a group holding the light and, for a     *)
(* spot or directional light, its target.  ret is the group, or Null.        *)

LightTypes == {"pointlight", "spotlight", "directionallight"}

\* the bounds createLight gives the shadow camera of a directional light
ShadowBounds(lightData) ==
    LET shadowLeft == validateShadowProperty(lightData.shadowleft, -5)
        shadowRight == validateShadowProperty(lightData.shadowright, 5)
        shadowBottom == validateShadowProperty(lightData.shadowbottom, -5)
        shadowTop == validateShadowProperty(lightData.shadowtop, 5)
    IN ShadowCamera(IF shadowLeft > 0 THEN -Abs(shadowLeft) ELSE shadowLeft,
                    IF shadowRight < 0 THEN Abs(shadowRight) ELSE shadowRight,
                    IF shadowBottom > 0 THEN -Abs(shadowBottom) ELSE shadowBottom,
                    IF shadowTop < 0 THEN Abs(shadowTop) ELSE shadowTop)

createLight(st, lightData, lightId) ==
    IF lightData.type \notin LightTypes THEN Return(st, Null)
    ELSE LET hasTarget == lightData.type \in {"spotlight", "directionallight"}
             visible == parseBoolean(lightData.enabled, TRUE)
             s1 == IF hasTarget THEN Alloc(st, NewObject("Object3D")) ELSE Return(st, Null)
             target == s1.ret
             s2 == Alloc(s1, [NewObject("Light") EXCEPT
                                !.prim = lightData.type, !.target = target,
                                !.visible = visible,
                                !.shadowCamera =
                                   IF lightData.type = "directionallight"
                                   THEN ShadowBounds(lightData)
                                   ELSE NoShadowCamera,
                                !.castShadow = parseBoolean(lightData.castshadow, FALSE),
                                !.name = lightId])
             light == s2.ret
             s3 == Alloc(s2, [NewObject("Group") EXCEPT !.visible = visible])
             lightGroup == s3.ret
             s4 == Add(s3, lightGroup, light)
             s5 == IF hasTarget THEN Add(s4, lightGroup, target) ELSE s4
         IN Return(s5, lightGroup)

-----------------------------------------------------------------------------
(* GraphParser *)

\* CacheKey without the material: a key made of the node id alone
CacheKeyNodeOnly(matObjects, nodeId, parentMaterial) == nodeId

\* const cacheKey = `${nodeId}_${materialUUID}`
CacheKey(matObjects, nodeId, parentMaterial) ==
    nodeId \o "_" \o (IF parentMaterial # Null THEN matObjects[parentMaterial].uuid
                      ELSE "null")

\* MissingNodeData without its test: every id is taken to have data
NeverMissing(nodeData) == FALSE

\* if (!nodeData): the table has no object for the id
MissingNodeData(nodeData) == ~nodeData.defined \/ nodeData.isNull

\* the material a node hands to its children: its own materialref when the
\* materials mapping resolves it, the parent's material otherwise
NodeMaterial(mapping, nodeData, parentMaterial) ==
    IF nodeData.materialref # ""
    THEN IF nodeData.materialref \in DOMAIN mapping
         THEN mapping[nodeData.materialref] ELSE parentMaterial
    ELSE parentMaterial

\* CloneReferenced without the clone: the cached instance itself is used
NoClone(st, referencedNode) == Return(st, referencedNode)

\* referencedNode.clone(true)
CloneReferenced(st, referencedNode) == CloneDeep(st, referencedNode)

\* the material bindings and the children of an object and its descendants
Snapshot(h, object) ==
    [o \in Descendants(h, object) |->
        [material |-> h[o].material, children |-> h[o].children]]

\* history: one return of createNode
LogCall(before, after, nodeId, parentMaterial, hit) ==
    [after EXCEPT !.nodeCalls = Append(@,
        [nodeId |-> nodeId, material |-> parentMaterial, ret |-> after.ret,
         hit |-> hit, exc |-> after.exc,
         heapBefore |-> Len(before.heap), heapAfter |-> Len(after.heap),
         keysBefore |-> before.processedNodes, keysAfter |-> after.processedNodes])]

\* a state in which nothing was thrown is handed on with this return value
ReturnUnlessThrown(st, value) == IF st.exc # "none" THEN st ELSE Return(st, value)

\* if (made) parent.add(made), for what the last call returned
AddIfMade(st, parent) ==
    IF st.exc = "none" /\ st.ret # Null THEN Add(st, parent, st.ret) ELSE st

\* if (lodChild) lod.addLevel(lodChild, mindist)
AddLevelIfMade(st, lod, distance) ==
    IF st.exc = "none" /\ st.ret # Null THEN addLevel(st, lod, st.ret, distance) ELSE st

\* if (nodeData.transforms) applyTransformations(object, nodeData.transforms)
Transformed(st, object, transforms) ==
    IF transforms.present THEN applyTransformations(st, object, transforms) ELSE st

\* parseBoolean(parentFlag) || parseBoolean(declared)
NodeShadow(parentFlag, declared) ==
    parseBoolean(JsBool(parentFlag), FALSE) \/ parseBoolean(declared, FALSE)

\* group.userData.material, group.castShadow and group.receiveShadow are set
SetNodeFields(st, group, nodeMaterial, nodeCastShadow, nodeReceiveShadow) ==
    IF st.exc # "none" THEN st
    ELSE [st EXCEPT !.heap[group].userMaterial = nodeMaterial,
                    !.heap[group].castShadow = nodeCastShadow,
                    !.heap[group].receiveShadow = nodeReceiveShadow]

\* this.processedNodes.set(cacheKey, true); this.nodes[cacheKey] = group
CacheNode(st, cacheKey, group) ==
    IF st.exc # "none" THEN st
    ELSE [st EXCEPT !.processedNodes = @ \cup {cacheKey},
                    !.nodes = Put(@, cacheKey, group),
                    !.writes = Append(@, [map |-> "nodes", key |-> cacheKey]),
                    !.ret = group]

\* if (parentMaterial) applyMaterialToNode(clonedNode, parentMaterial, ...)
PaintClone(st, parentMaterial, parentCastShadow, parentReceiveShadow) ==
    IF parentMaterial # Null
    THEN applyMaterialToNode(st, st.ret, parentMaterial, parentCastShadow,
                             parentReceiveShadow)
    ELSE st

\* history: one attachment of a referenced node; found is the state createNode
\* returned, st the state after group.add(clonedNode)
LogAttach(found, st, group, parentMaterial) ==
    [st EXCEPT !.attaches = Append(@,
        [group |-> group, canonical |-> found.ret, attached |-> st.ret,
         material |-> parentMaterial, heapBefore |-> Len(found.heap),
         before |-> Snapshot(found.heap, found.ret),
         after |-> Snapshot(st.heap, found.ret)])]

\* if (referencedNode) { clone, applyMaterialToNode, group.add(clonedNode) }
AttachClone(st, group, parentMaterial, parentCastShadow, parentReceiveShadow) ==
    IF st.exc # "none" \/ st.ret = Null THEN st
    ELSE LogAttach(st,
                   AddIfMade(PaintClone(CloneReferenced(st, st.ret), parentMaterial,
                                        parentCastShadow, parentReceiveShadow),
                             group),
                   group, parentMaterial)

\* if (primitive) { shadow flags of the mesh; group.add(primitive) }
AttachPrimitive(st, group, parentCastShadow, parentReceiveShadow) ==
    IF st.ret = Null THEN st
    ELSE Add([st EXCEPT !.heap[st.ret].castShadow = parentCastShadow \/ @,
                        !.heap[st.ret].receiveShadow = parentReceiveShadow \/ @],
             group, st.ret)

RECURSIVE createNode(_, _, _, _, _, _, _), createLOD(_, _, _, _, _, _, _),
          handleChild(_, _, _, _, _, _, _, _), DirectChildren(_, _, _, _, _, _, _, _, _),
          NodesList(_, _, _, _, _, _, _, _, _), LodsList(_, _, _, _, _, _, _, _, _),
          LodLevels(_, _, _, _, _, _, _, _, _), BuildNode(_, _, _, _, _, _, _, _)

createNode(st, graphData, nodeId, parentMaterial, parentCastShadow, parentReceiveShadow, depth) ==
    IF depth > MaxStack
    THEN LogCall(st, Throw(st, "RangeError"), nodeId, parentMaterial, FALSE)
    ELSE IF CacheKey(st.matObjs, nodeId, parentMaterial) \in st.processedNodes
    THEN LogCall(st, Return(st, st.nodes[CacheKey(st.matObjs, nodeId, parentMaterial)]),
                 nodeId, parentMaterial, TRUE)
    ELSE IF MissingNodeData(Lookup(graphData, nodeId))
    THEN LogCall(st, Return(st, Null), nodeId, parentMaterial, FALSE)
    ELSE LogCall(st, BuildNode(st, graphData, nodeId, Lookup(graphData, nodeId),
                               parentMaterial, parentCastShadow, parentReceiveShadow,
                               depth),
                 nodeId, parentMaterial, FALSE)

\* createNode from "new THREE.Group()" to its return.  The group is the next
\* object allocated; the materials mapping is not written before the children
\* are processed, so the node's material is the one resolved on entry
BuildNode(st, graphData, nodeId, nodeData, parentMaterial, parentCastShadow, parentReceiveShadow, depth) ==
    LET group == Len(st.heap) + 1
        nodeMaterial == NodeMaterial(st.materials, nodeData, parentMaterial)
        nodeCastShadow == NodeShadow(parentCastShadow, nodeData.castshadow)
        nodeReceiveShadow == NodeShadow(parentReceiveShadow, nodeData.receiveshadow)
    IN CacheNode(
         LodsList(
           NodesList(
             DirectChildren(
               SetNodeFields(
                 Transformed(Alloc(st, [NewObject("Group") EXCEPT !.nodeId = nodeId]),
                             group, nodeData.transforms),
                 group, nodeMaterial, nodeCastShadow, nodeReceiveShadow),
               group, IF nodeData.hasChildren THEN nodeData.direct ELSE <<>>, 1,
               graphData, nodeMaterial, nodeCastShadow, nodeReceiveShadow, depth),
             group,
             IF nodeData.hasChildren /\ nodeData.nodesList.isArray
             THEN nodeData.nodesList.items ELSE <<>>,
             1, graphData, nodeMaterial, nodeCastShadow, nodeReceiveShadow, depth),
           group,
           IF nodeData.hasChildren /\ nodeData.lodsList.isArray
           THEN nodeData.lodsList.items ELSE <<>>,
           1, graphData, nodeMaterial, nodeCastShadow, nodeReceiveShadow, depth),
         CacheKey(st.matObjs, nodeId, parentMaterial), group)

\* for (const childId in nodeData.children), nodesList and lodsList skipped
DirectChildren(st, group, direct, i, graphData, nodeMaterial, nodeCastShadow, nodeReceiveShadow, depth) ==
    IF i > Len(direct) \/ st.exc # "none" THEN st
    ELSE DirectChildren(
           IF direct[i].value.isNull THEN Throw(st, "TypeError")
           ELSE handleChild(st, group,
                            IF direct[i].value.nodeId = ""
                            THEN [direct[i].value EXCEPT !.nodeId = direct[i].id]
                            ELSE direct[i].value,
                            graphData, nodeMaterial, nodeCastShadow, nodeReceiveShadow,
                            depth),
           group, direct, i + 1, graphData, nodeMaterial, nodeCastShadow,
           nodeReceiveShadow, depth)

\* for (const childNodeId of nodeData.children.nodesList)
NodesList(st, group, items, i, graphData, nodeMaterial, nodeCastShadow, nodeReceiveShadow, depth) ==
    IF i > Len(items) \/ st.exc # "none" THEN st
    ELSE NodesList(handleChild(st, group, NodeRef(items[i]), graphData, nodeMaterial,
                               nodeCastShadow, nodeReceiveShadow, depth),
                   group, items, i + 1, graphData, nodeMaterial, nodeCastShadow,
                   nodeReceiveShadow, depth)

\* for (const lodNodeId of nodeData.children.lodsList)
LodsList(st, group, items, i, graphData, nodeMaterial, nodeCastShadow, nodeReceiveShadow, depth) ==
    IF i > Len(items) \/ st.exc # "none" THEN st
    ELSE LodsList(AddIfMade(createLOD(st, graphData, Lookup(graphData, items[i]),
                                      nodeMaterial, nodeCastShadow, nodeReceiveShadow,
                                      depth),
                            group),
                  group, items, i + 1, graphData, nodeMaterial, nodeCastShadow,
                  nodeReceiveShadow, depth)

\* createLOD: the LOD is the next object allocated
createLOD(st, graphData, lodData, parentMaterial, parentCastShadow, parentReceiveShadow, depth) ==
    IF ~lodData.defined \/ lodData.isNull \/ ~lodData.lodNodes.present
    THEN Return(st, Null)
    ELSE ReturnUnlessThrown(
           LodLevels(Transformed(Alloc(st, NewObject("LOD")), Len(st.heap) + 1,
                                 lodData.transforms),
                     Len(st.heap) + 1, lodData.lodNodes.entries, 1, graphData,
                     parentMaterial, parentCastShadow, parentReceiveShadow, depth),
           Len(st.heap) + 1)

\* for (const lodEntry of lodData.lodNodes)
LodLevels(st, lod, entries, i, graphData, parentMaterial, parentCastShadow, parentReceiveShadow, depth) ==
    IF i > Len(entries) \/ st.exc # "none" THEN st
    ELSE LodLevels(
           IF entries[i].nodeId = "" \/ entries[i].mindist.t # "number" THEN st
           ELSE AddLevelIfMade(createNode(st, graphData, entries[i].nodeId,
                                          parentMaterial, parentCastShadow,
                                          parentReceiveShadow, depth + 1),
                               lod, entries[i].mindist.n),
           lod, entries, i + 1, graphData, parentMaterial, parentCastShadow,
           parentReceiveShadow, depth)

handleChild(st, group, childData, graphData, parentMaterial, parentCastShadow, parentReceiveShadow, depth) ==
    IF childData.type = "lod"
    THEN AddIfMade(createLOD(st, graphData, childData, parentMaterial,
                             parentCastShadow, parentReceiveShadow, depth),
                   group)
    ELSE IF childData.type = "noderef"
    THEN IF childData.nodeId = "" THEN st
         ELSE AttachClone(createNode(st, graphData, childData.nodeId, parentMaterial,
                                     parentCastShadow, parentReceiveShadow, depth + 1),
                          group, parentMaterial, parentCastShadow, parentReceiveShadow)
    ELSE IF childData.type \in GeometryTypes \cup {"polygon"}
    THEN AttachPrimitive(createPrimitive(st, childData, parentMaterial), group,
                         parentCastShadow, parentReceiveShadow)
    ELSE IF childData.type \in LightTypes
    THEN AddIfMade(createLight(st, childData, childData.nodeId), group)
    ELSE st

\* parseGraph(graphData, scene)
parseGraph(st, graphData) ==
    IF ~graphData.present \/ graphData.rootid = "" THEN st
    ELSE AddIfMade(createNode(st, graphData, graphData.rootid, Null, FALSE, FALSE, 1),
                   SceneObject)

-----------------------------------------------------------------------------
(* MyTextures and MyMaterials *)

\* MyTextures.loadTextureAsync: the loader a texture starts with
FirstLoader(textureData) ==
    IF parseBoolean(textureData.isVideo, FALSE) /\ validateString(textureData.filepath) # ""
    THEN "video"
    ELSE IF validateString(textureData.mipmap0) # "" THEN "mipmaps"
    ELSE "single"

\* texturesRendering pushes a promise for this entry
TextureIssued(loaded, textureData) ==
    /\ textureData.id # ""
    /\ textureData.id \notin DOMAIN loaded
    /\ validateString(JsStr(textureData.id)) # ""
    /\ validateString(textureData.filepath) # ""

\* MyMaterials.getTexture(textures, ref)
getTexture(loaded, ref) ==
    IF ref = "" \/ ref \notin DOMAIN loaded THEN NoTexture ELSE loaded[ref]

\* isValid without the test of shininess
AlwaysValid(materialData) == TRUE

\* MyMaterials.isValid(): color and specular are always THREE.Color objects
isValid(materialData) == toValidFloat(materialData.shininess, 30) >= 0

\* materialsRendering pushes a promise for this entry
MaterialIssued(registered, materialData) ==
    /\ materialData.id # ""
    /\ materialData.id \notin DOMAIN registered
    /\ isValid(materialData)

\* PromiseAllFulfilled without the wait: the caller goes on at once
NotAwaited(promises) == TRUE

\* await Promise.all(promises) resumes: every promise pushed is fulfilled
\* (an entry for which none was pushed is "none")
PromiseAllFulfilled(promises) ==
    \A k \in DOMAIN promises : promises[k] \in {"none", "fulfilled"}

\* await Promise.all(promises) throws: some promise pushed is rejected
PromiseAllRejected(promises) ==
    \E k \in DOMAIN promises : promises[k] = "rejected"

TexIdsOf(d) == {d.textures[i].id : i \in DOMAIN d.textures}
MatIdsOf(d) == {d.materials[i].id : i \in DOMAIN d.materials}
TexEntry(d, id) == CHOOSE e \in {d.textures[i] : i \in DOMAIN d.textures} : e.id = id
MatEntry(d, id) == CHOOSE e \in {d.materials[i] : i \in DOMAIN d.materials} : e.id = id

-----------------------------------------------------------------------------
(* MyCamera and cameraRendering.  Lengths are in tenths of a unit.           *)

NearDefault == 1
FarDefault == 20000

PerspectiveCamera(fov, near, far) ==
    [type |-> "PerspectiveCamera", fov |-> fov, near |-> near, far |-> far,
     left |-> 0, right |-> 0, top |-> 0, bottom |-> 0]

OrthographicCamera(left, right, top, bottom, near, far) ==
    [type |-> "OrthographicCamera", fov |-> 0, near |-> near, far |-> far,
     left |-> left, right |-> right, top |-> top, bottom |-> bottom]

\* MyApp.initDefaultCamera: the table the application starts with
InitialCameras == [id \in {"Perspective"} |-> PerspectiveCamera(75, 1, 10000)]

\* if the table holds only the default camera, clearDefaultCameras()
ClearedOfDefault(table) == IF DOMAIN table = {"Perspective"} THEN <<>> ELSE table

\* the camera new MyCamera(app, id, cameraData) makes
CameraOf(cameraData) ==
    LET type == IF cameraData.type = "" THEN "perspective" ELSE cameraData.type
        near == validateNear(cameraData.near, NearDefault)
        far == validateFar(cameraData.far, near, FarDefault)
        lr == validateLeftRight(toValidFloat(cameraData.left, -50),
                                toValidFloat(cameraData.right, 50), -50, 50)
        bt == validateBottomTop(toValidFloat(cameraData.bottom, -50),
                                toValidFloat(cameraData.top, 50), -50, 50)
    IN IF type = "perspective"
       THEN PerspectiveCamera(validateAngle(cameraData.angle, 0, 90, 50), near, far)
       ELSE IF type = "orthogonal"
       THEN OrthographicCamera(lr[1], lr[2], bt[2], bt[1], near, far)
       ELSE PerspectiveCamera(50, NearDefault, FarDefault)

\* MyCamera registering nothing for a type it does not recognise
SkipUnknownCamera(table, id, cameraData) ==
    IF cameraData.type \in {"", "perspective", "orthogonal"}
    THEN Put(ClearedOfDefault(table), id, CameraOf(cameraData))
    ELSE ClearedOfDefault(table)

\* new MyCamera(app, id, cameraData): this.app.cameras[id] = this.camera
MyCamera(table, id, cameraData) == Put(ClearedOfDefault(table), id, CameraOf(cameraData))

\* for (let id in cameraData) new MyCamera(this.app, id, cameraData[id])
RECURSIVE CameraLoop(_, _, _)
CameraLoop(table, list, i) ==
    IF i > Len(list) THEN table
    ELSE CameraLoop(MyCamera(table, list[i].id, list[i]), list, i + 1)

\* the camera cameraRendering makes active, given the table its loop left
ActiveCameraOf(table, cameraData) ==
    IF cameraData.initial # "" /\ cameraData.initial \in DOMAIN table
    THEN cameraData.initial
    ELSE IF cameraData.list # <<>> THEN cameraData.list[1].id
    ELSE "DefaultCamera"

\* cameraRendering(cameraData): the camera table it leaves; with no camera to
\* make active it creates 'DefaultCamera' from an empty description
cameraRendering(table, cameraData) ==
    IF cameraData.list = <<>>
       /\ ~(cameraData.initial # "" /\ cameraData.initial \in DOMAIN table)
    THEN MyCamera(table, "DefaultCamera", CameraOfKind("DefaultCamera", "untyped"))
    ELSE CameraLoop(table, cameraData.list, 1)

\* setActiveCamera(cameraName) with a name the table does not hold:
\* this.activeCamera is undefined and this.activeCamera.target throws TypeError
SetActiveCameraThrows(table, cameraData) ==
    ActiveCameraOf(CameraLoop(table, cameraData.list, 1), cameraData)
       \notin DOMAIN cameraRendering(table, cameraData)

-----------------------------------------------------------------------------
(* The pipeline *)

Init ==
    /\ data \in Scenes
    /\ pc = "idle"
    /\ abortCause = "none"
    /\ phases = <<>>
    /\ texPromise = [id \in TexIdsOf(data) |-> "none"]
    /\ texStage = [id \in TexIdsOf(data) |-> "none"]
    /\ textures = <<>>
    /\ matPromise = [id \in MatIdsOf(data) |-> "none"]
    /\ matMap = [id \in MatIdsOf(data) |-> NoTexture]
    /\ materials = <<>>
    /\ matObjs = <<[uuid |-> Uuid(1), map |-> NoTexture, vertexColors |-> FALSE,
                    wireframe |-> FALSE, texlength_s |-> 0, texlength_t |-> 0],
                   [uuid |-> Uuid(2), map |-> NoTexture, vertexColors |-> TRUE,
                    wireframe |-> TRUE, texlength_s |-> 0, texlength_t |-> 0]>>
    /\ texRepeat = <<>>
    /\ heap = <<NewObject("Scene")>>
    /\ processedNodes = {}
    /\ nodes = <<>>
    /\ parseExc = "none"
    /\ nodeCalls = <<>>
    /\ attaches = <<>>
    /\ writes = <<>>
    /\ appCallbacks = 0
    /\ cameras = InitialCameras
    /\ activeCameraName = "Perspective"
    /\ guiLightGroup = Null
    /\ lastVisible = <<>>
    /\ call = [fn |-> "none"]
    /\ result = <<>>

\* onSceneLoaded(data) up to the await of Promise.all(texturePromises):
\* globalsRendering, cameraRendering, and the loop of texturesRendering
OnSceneLoaded ==
    /\ pc = "idle"
    /\ ~SetActiveCameraThrows(cameras, data.cameras)
    /\ pc' = "textures"
    /\ phases' = <<"globals", "cameras", "textures">>
    /\ cameras' = cameraRendering(cameras, data.cameras)
    /\ activeCameraName' =
          ActiveCameraOf(CameraLoop(cameras, data.cameras.list, 1), data.cameras)
    /\ UNCHANGED <<toolVars, texRepeat>>
    /\ texPromise' = [id \in DOMAIN texPromise |->
                        IF TextureIssued(textures, TexEntry(data, id))
                        THEN "pending" ELSE "none"]
    /\ texStage' = [id \in DOMAIN texStage |->
                        IF TextureIssued(textures, TexEntry(data, id))
                        THEN FirstLoader(TexEntry(data, id)) ELSE "none"]
    /\ UNCHANGED <<data, abortCause, textures, matPromise, matMap, materials, matObjs,
                   heap, processedNodes, nodes, parseExc, nodeCalls, attaches, writes,
                   appCallbacks>>

\* onSceneLoaded(data) when cameraRendering throws: the promise of
\* onSceneLoaded is rejected before texturesRendering is reached
CameraRenderingThrew ==
    /\ pc = "idle"
    /\ SetActiveCameraThrows(cameras, data.cameras)
    /\ pc' = "rejected"
    /\ abortCause' = "cameras"
    /\ phases' = <<"globals", "cameras">>
    /\ cameras' = cameraRendering(cameras, data.cameras)
    /\ activeCameraName' =
          ActiveCameraOf(CameraLoop(cameras, data.cameras.list, 1), data.cameras)
    /\ UNCHANGED <<toolVars, texRepeat>>
    /\ UNCHANGED <<data, texPromise, texStage, textures, matPromise, matMap, materials,
                   matObjs, heap, processedNodes, nodes, parseExc, nodeCalls, attaches,
                   writes, appCallbacks>>

\* a loader delivers the texture: the then-callback of texturesRendering stores it
TextureLoaded(id) ==
    /\ texPromise[id] = "pending"
    /\ texPromise' = [texPromise EXCEPT ![id] = "fulfilled"]
    /\ textures' = Put(textures, id, id)
    /\ texRepeat' = Put(texRepeat, id, <<One, One>>)
    /\ writes' = Append(writes, [map |-> "textures", key |-> id])
    /\ UNCHANGED <<cameras, activeCameraName, toolVars>>
    /\ UNCHANGED <<data, pc, abortCause, phases, texStage, matPromise, matMap, materials,
                   matObjs, heap, processedNodes, nodes, parseExc, nodeCalls, attaches,
                   appCallbacks>>

\* loadCustomMipmaps catches a failed mipmap and falls back to loadSingleTexture
MipmapsFailed(id) ==
    /\ texPromise[id] = "pending"
    /\ texStage[id] = "mipmaps"
    /\ texStage' = [texStage EXCEPT ![id] = "single"]
    /\ UNCHANGED <<cameras, activeCameraName, toolVars, texRepeat>>
    /\ UNCHANGED <<data, pc, abortCause, phases, texPromise, textures, matPromise, matMap,
                   materials, matObjs, heap, processedNodes, nodes, parseExc, nodeCalls,
                   attaches, writes, appCallbacks>>

\* the error callback of loadSingleTexture rejects the promise
TextureFailed(id) ==
    /\ texPromise[id] = "pending"
    /\ texStage[id] = "single"
    /\ texPromise' = [texPromise EXCEPT ![id] = "rejected"]
    /\ UNCHANGED <<cameras, activeCameraName, toolVars, texRepeat>>
    /\ UNCHANGED <<data, pc, abortCause, phases, texStage, textures, matPromise, matMap,
                   materials, matObjs, heap, processedNodes, nodes, parseExc, nodeCalls,
                   attaches, writes, appCallbacks>>

\* Promise.all(texturePromises) rejects: the await throws, and the promises of
\* texturesRendering, onAfterSceneLoadedAndBeforeRender and onSceneLoaded reject
TexturesRejected ==
    /\ pc = "textures"
    /\ PromiseAllRejected(texPromise)
    /\ pc' = "rejected"
    /\ abortCause' = "textures"
    /\ UNCHANGED <<cameras, activeCameraName, toolVars, texRepeat>>
    /\ UNCHANGED <<data, phases, texPromise, texStage, textures, matPromise, matMap,
                   materials, matObjs, heap, processedNodes, nodes, parseExc, nodeCalls,
                   attaches, writes, appCallbacks>>

\* Promise.all(texturePromises) is fulfilled: materialsRendering runs up to the
\* await of Promise.all(materialPromises)
TexturesResolved ==
    /\ pc = "textures"
    /\ ~PromiseAllRejected(texPromise)
    /\ PromiseAllFulfilled(texPromise)
    /\ pc' = "materials"
    /\ phases' = Append(phases, "materials")
    /\ matPromise' = [id \in DOMAIN matPromise |->
                        IF MaterialIssued(materials, MatEntry(data, id))
                        THEN "pending" ELSE "none"]
    /\ matMap' = [id \in DOMAIN matMap |->
                        getTexture(textures, MatEntry(data, id).textureref)]
    /\ UNCHANGED <<cameras, activeCameraName, toolVars, texRepeat>>
    /\ UNCHANGED <<data, abortCause, texPromise, texStage, textures, materials, matObjs,
                   heap, processedNodes, nodes, parseExc, nodeCalls, attaches, writes,
                   appCallbacks>>

\* createThreeMaterialAsync is fulfilled: the then-callback of materialsRendering
\* stores the material
MaterialCreated(id) ==
    /\ matPromise[id] = "pending"
    /\ matPromise' = [matPromise EXCEPT ![id] = "fulfilled"]
    /\ matObjs' = Append(matObjs, [uuid |-> Uuid(Len(matObjs) + 1), map |-> matMap[id],
                                   vertexColors |-> FALSE, wireframe |-> FALSE,
                                   texlength_s |->
                                      toValidFloat(MatEntry(data, id).texlength_s, 1),
                                   texlength_t |->
                                      toValidFloat(MatEntry(data, id).texlength_t, 1)])
    /\ materials' = Put(materials, id, Len(matObjs) + 1)
    /\ texRepeat' = IF matMap[id] # NoTexture
                    THEN Put(texRepeat, matMap[id], <<One, One>>)
                    ELSE texRepeat
    /\ writes' = Append(writes, [map |-> "materials", key |-> id])
    /\ UNCHANGED <<cameras, activeCameraName, toolVars>>
    /\ UNCHANGED <<data, pc, abortCause, phases, texPromise, texStage, textures, matMap,
                   heap, processedNodes, nodes, parseExc, nodeCalls, attaches,
                   appCallbacks>>

ParserState ==
    [heap |-> heap, matObjs |-> matObjs, materials |-> materials,
     processedNodes |-> processedNodes, nodes |-> nodes, nodeCalls |-> nodeCalls,
     attaches |-> attaches, writes |-> writes, repeat |-> texRepeat,
     exc |-> "none", ret |-> Null]

\* Promise.all(materialPromises) is fulfilled: parseGraph runs; an exception it
\* throws rejects the promise of onSceneLoaded
GraphParsed ==
    /\ pc = "materials"
    /\ PromiseAllFulfilled(matPromise)
    /\ phases' = Append(phases, "graph")
    /\ LET st == parseGraph(ParserState, data.graph)
       IN /\ heap' = st.heap
          /\ matObjs' = st.matObjs
          /\ texRepeat' = st.repeat
          /\ materials' = st.materials
          /\ processedNodes' = st.processedNodes
          /\ nodes' = st.nodes
          /\ nodeCalls' = st.nodeCalls
          /\ attaches' = st.attaches
          /\ writes' = st.writes
          /\ parseExc' = st.exc
          /\ pc' = IF st.exc = "none" THEN "parsed" ELSE "rejected"
          /\ abortCause' = IF st.exc = "none" THEN abortCause ELSE "graph"
    /\ UNCHANGED <<cameras, activeCameraName, toolVars>>
    /\ UNCHANGED <<data, texPromise, texStage, textures, matPromise, matMap, appCallbacks>>

\* onSceneLoaded resumes after its await and calls onSceneLoadedApp
SceneLoadedApp ==
    /\ pc = "parsed"
    /\ pc' = "loaded"
    /\ appCallbacks' = appCallbacks + 1
    /\ UNCHANGED <<cameras, activeCameraName, toolVars, texRepeat>>
    /\ UNCHANGED <<data, abortCause, phases, texPromise, texStage, textures, matPromise,
                   matMap, materials, matObjs, heap, processedNodes, nodes, parseExc,
                   nodeCalls, attaches, writes>>

Next ==
    \/ OnSceneLoaded
    \/ CameraRenderingThrew
    \/ \E id \in DOMAIN texPromise : TextureLoaded(id)
    \/ \E id \in DOMAIN texPromise : MipmapsFailed(id)
    \/ \E id \in DOMAIN texPromise : TextureFailed(id)
    \/ TexturesRejected
    \/ TexturesResolved
    \/ \E id \in DOMAIN matPromise : MaterialCreated(id)
    \/ GraphParsed
    \/ SceneLoadedApp

Spec == Init /\ [][Next]_vars

-----------------------------------------------------------------------------
(* The lights and the GUI: createLight on the light descriptions a scene can  *)
(* hold, and the toggle of the lights folder, which calls                    *)
(* synchronizeLightVisibility with the group of the light.                   *)

\* the values a shadow bound is declared with
ShadowValues == {JsUndef, JsNum(-3), JsNum(0), JsNum(4)}

LightData(type, enabled, left, right, bottom, top) ==
    [ChildOfType(type) EXCEPT !.enabled = enabled,
                              !.shadowleft = left, !.shadowright = right,
                              !.shadowbottom = bottom, !.shadowtop = top]

LightInputs ==
    {LightData(type, enabled, JsUndef, JsUndef, JsUndef, JsUndef) :
        type \in {"pointlight", "spotlight"}, enabled \in {JsUndef, JsBool(FALSE)}}
    \cup
    {LightData("directionallight", JsUndef, b[1], b[2], b[3], b[4]) :
        b \in [1..4 -> ShadowValues]}

\* the application with no scene in the pipeline, at the given position
Standalone(position) ==
    /\ data = SceneData(<<>>, <<>>, DefaultGraph)
    /\ pc = position
    /\ abortCause = "none"
    /\ phases = <<>>
    /\ texPromise = <<>>
    /\ texStage = <<>>
    /\ textures = <<>>
    /\ matPromise = <<>>
    /\ matMap = <<>>
    /\ materials = <<>>
    /\ matObjs = <<>>
    /\ texRepeat = <<>>
    /\ heap = <<NewObject("Scene")>>
    /\ processedNodes = {}
    /\ nodes = <<>>
    /\ parseExc = "none"
    /\ nodeCalls = <<>>
    /\ attaches = <<>>
    /\ writes = <<>>
    /\ appCallbacks = 0
    /\ cameras = InitialCameras
    /\ activeCameraName = "Perspective"
    /\ guiLightGroup = Null
    /\ lastVisible = <<>>
    /\ call = [fn |-> "none"]
    /\ result = <<>>

LightInit == Standalone("gui")

pipelineVars == <<data, pc, abortCause, phases, texPromise, texStage, textures,
                  matPromise, matMap, materials, matObjs, processedNodes, nodes,
                  parseExc, nodeCalls, attaches, writes, appCallbacks, cameras,
                  activeCameraName, texRepeat>>

\* handleChild meets a light: createLight, and the group is added to the scene
LightCreated ==
    /\ guiLightGroup = Null
    /\ \E lightData \in LightInputs :
          LET made == createLight(ParserState, lightData, "lamp")
          IN /\ heap' = Add(made, SceneObject, made.ret).heap
             /\ guiLightGroup' = made.ret
    /\ UNCHANGED <<pipelineVars, lastVisible, call, result>>

\* the onChange of the light's controller: synchronizeLightVisibility(lightGroup, value)
VisibilityToggled ==
    /\ guiLightGroup # Null
    /\ \E value \in BOOLEAN :
          /\ heap' = synchronizeLightVisibility(heap, guiLightGroup, value)
          /\ lastVisible' = <<value>>
    /\ UNCHANGED <<pipelineVars, guiLightGroup, call, result>>

LightNext == LightCreated \/ VisibilityToggled

LightSpec == LightInit /\ [][LightNext]_vars

-----------------------------------------------------------------------------
(* The validators, called on their own: each call is recorded with its       *)
(* arguments and what it returned.                                           *)

\* numbers passed to the validators range over -MaxNumber..MaxNumber
MaxNumber == 3

Numbers == -MaxNumber..MaxNumber

\* the values a property of the scene file can hold, as the validators see them
JsValues ==
    {JsUndef, JsBool(TRUE), JsBool(FALSE)}
    \cup {JsStr(v) : v \in {"true", "TRUE", "True", "1", "0", "false", "no", ""}}
    \cup {JsNum(n) : n \in Numbers}

\* the values a numeric property holds: none, text that is no number, a number
NumericValues == {JsUndef, JsStr("no")} \cup {JsNum(n) : n \in Numbers}

\* the defaults a caller passes for a value in [0, 1] or [0, 2]
Defaults == 0..2

Called(fn, args, returned) ==
    /\ pc = "validator"
    /\ call' = [fn |-> fn, args |-> args]
    /\ result' = returned
    /\ UNCHANGED <<pipelineVars, heap, guiLightGroup, lastVisible>>

ParseBooleanCalled ==
    \E value \in JsValues, defaultValue \in BOOLEAN :
        Called("parseBoolean", <<value, JsBool(defaultValue)>>,
               <<parseBoolean(value, defaultValue)>>)

ToValidOpacityCalled ==
    \E value \in NumericValues, defaultValue \in Defaults :
        Called("toValidOpacity", <<value, JsNum(defaultValue)>>,
               <<toValidOpacity(value, defaultValue)>>)

ValidatePenumbraCalled ==
    \E value \in NumericValues, defaultValue \in Defaults :
        Called("validatePenumbra", <<value, JsNum(defaultValue)>>,
               <<validatePenumbra(value, defaultValue)>>)

ValidateDecayCalled ==
    \E value \in NumericValues, defaultValue \in Defaults :
        Called("validateDecay", <<value, JsNum(defaultValue)>>,
               <<validateDecay(value, defaultValue)>>)

ValidateLeftRightCalled ==
    \E left \in Numbers, right \in Numbers :
        Called("validateLeftRight", <<JsNum(left), JsNum(right), JsNum(-5), JsNum(5)>>,
               validateLeftRight(left, right, -5, 5))

ValidateBottomTopCalled ==
    \E bottom \in Numbers, top \in Numbers :
        Called("validateBottomTop", <<JsNum(bottom), JsNum(top), JsNum(-5), JsNum(5)>>,
               validateBottomTop(bottom, top, -5, 5))

\* the raw near and far values a camera is declared with, in tenths
NearFarValues == {JsUndef, JsNum(-1), JsNum(0), JsNum(5), JsNum(900), JsNum(30000)}

\* the MyCamera constructor: validateNear, then validateFar with that near
ValidateNearFarCalled ==
    \E near \in NearFarValues, far \in NearFarValues :
        Called("validateNearFar", <<near, far>>,
               <<validateNear(near, NearDefault),
                 validateFar(far, validateNear(near, NearDefault), FarDefault)>>)

\* the values a channel of a colour is declared with
ChannelValues ==
    {JsUndef, JsStr("red"), JsNum(-20), JsNum(0), JsNum(128), JsNum(255), JsNum(300)}

ColorInputs ==
    {NoColor} \cup {Color(r, g, b) : r \in ChannelValues, g \in ChannelValues,
                                     b \in ChannelValues}

ParseColorCalled ==
    \E color \in ColorInputs : Called("parseColor", <<color>>, parseColor(color))

ValidatorInit == Standalone("validator")

ValidatorNext ==
    \/ ParseBooleanCalled
    \/ ToValidOpacityCalled
    \/ ValidatePenumbraCalled
    \/ ValidateDecayCalled
    \/ ValidateLeftRightCalled
    \/ ValidateBottomTopCalled
    \/ ValidateNearFarCalled
    \/ ParseColorCalled

ValidatorSpec == ValidatorInit /\ [][ValidatorNext]_vars

-----------------------------------------------------------------------------
(* applyTransformations called on a new group with a transforms list         *)

\* the length of the transforms lists
MaxTransforms == 3

\* the entries a transforms list is made of: two of each type, one with a
\* component left out, one with an angle out of range, and one of no known type
TransformEntries ==
    {Transform("translate", 1, 2, 3),
     [Transform("translate", 4, 5, 6) EXCEPT !.y = JsUndef],
     Transform("rotate", 90, 0, 400), Transform("rotate", 10, 20, 30),
     Transform("scale", 2, 2, 2),
     [Transform("scale", 3, 4, 5) EXCEPT !.z = JsUndef],
     Transform("skew", 7, 7, 7)}

TransformLists == UNION {[1..k -> TransformEntries] : k \in 0..MaxTransforms}

\* createNode: const group = new THREE.Group(); applyTransformations(group, transforms)
TransformsApplied ==
    /\ pc = "transforms"
    /\ call.fn = "none"
    /\ \E entries \in TransformLists :
          LET made == Alloc(ParserState, NewObject("Group"))
          IN /\ heap' = applyTransformations(made, made.ret, TransformList(entries)).heap
             /\ call' = [fn |-> "applyTransformations", args |-> <<entries>>]
             /\ result' = <<made.ret>>
    /\ UNCHANGED <<pipelineVars, guiLightGroup, lastVisible>>

TransformInit == Standalone("transforms")

TransformNext == TransformsApplied

TransformSpec == TransformInit /\ [][TransformNext]_vars

-----------------------------------------------------------------------------
(* createPrimitive called for the primitives of a node, one after another,   *)
(* with the material the node hands down: none, or one of the materials of   *)
(* the scene.                                                                *)

\* the number of primitives built
MaxPrimitives == 2

\* the materials of the scene: 3 and 4 are bound to the texture t1, 4 with a
\* texlength_s of 2; 5 has no map
SceneMaterials ==
    <<[uuid |-> Uuid(1), map |-> NoTexture, vertexColors |-> FALSE,
       wireframe |-> FALSE, texlength_s |-> 0, texlength_t |-> 0],
      [uuid |-> Uuid(2), map |-> NoTexture, vertexColors |-> TRUE,
       wireframe |-> TRUE, texlength_s |-> 0, texlength_t |-> 0],
      [uuid |-> Uuid(3), map |-> "t1", vertexColors |-> FALSE,
       wireframe |-> FALSE, texlength_s |-> 1, texlength_t |-> 1],
      [uuid |-> Uuid(4), map |-> "t1", vertexColors |-> FALSE,
       wireframe |-> FALSE, texlength_s |-> 2, texlength_t |-> 1],
      [uuid |-> Uuid(5), map |-> NoTexture, vertexColors |-> FALSE,
       wireframe |-> FALSE, texlength_s |-> 1, texlength_t |-> 1]>>

InheritedMaterials == {Null, 3, 4, 5}

PrimitiveInputs ==
    {ChildOfType("rectangle"),
     [ChildOfType("rectangle") EXCEPT !.xy1 = Point(0, 0), !.xy2 = Point(6, 2)],
     ChildOfType("triangle"),
     [ChildOfType("triangle") EXCEPT !.xyz1 = Point(0, 0), !.xyz2 = Point(4, 0),
                                     !.xyz3 = Point(0, 2)],
     ChildOfType("nurbs"),
     [ChildOfType("nurbs") EXCEPT !.parts_u = JsNum(4), !.parts_v = JsNum(2),
                                  !.bbox = <<6, 2>>],
     ChildOfType("polygon"),
     ChildOfType("cone")}

PrimitiveInit ==
    /\ data = SceneData(<<>>, <<>>, DefaultGraph)
    /\ pc = "primitives"
    /\ abortCause = "none"
    /\ phases = <<>>
    /\ texPromise = <<>>
    /\ texStage = <<>>
    /\ textures = [id \in {"t1"} |-> id]
    /\ matPromise = <<>>
    /\ matMap = <<>>
    /\ materials = [id \in {"m1", "m2", "m3"} |->
                       CASE id = "m1" -> 3 [] id = "m2" -> 4 [] id = "m3" -> 5]
    /\ matObjs = SceneMaterials
    /\ texRepeat = [id \in {"t1"} |-> <<One, One>>]
    /\ heap = <<NewObject("Scene")>>
    /\ processedNodes = {}
    /\ nodes = <<>>
    /\ parseExc = "none"
    /\ nodeCalls = <<>>
    /\ attaches = <<>>
    /\ writes = <<>>
    /\ appCallbacks = 0
    /\ cameras = InitialCameras
    /\ activeCameraName = "Perspective"
    /\ guiLightGroup = Null
    /\ lastVisible = <<>>
    /\ call = [fn |-> "none"]
    /\ result = <<>>

\* handleChild meets a primitive: createPrimitive, and the mesh is added
PrimitiveCreated ==
    /\ pc = "primitives"
    /\ Len(result) < MaxPrimitives
    /\ \E primitiveData \in PrimitiveInputs, material \in InheritedMaterials :
          LET made == createPrimitive(ParserState, primitiveData, material)
          IN /\ heap' = AttachPrimitive(made, SceneObject, FALSE, FALSE).heap
             /\ matObjs' = made.matObjs
             /\ materials' = made.materials
             /\ writes' = made.writes
             /\ texRepeat' = made.repeat
             /\ call' = [fn |-> "createPrimitive", args |-> <<primitiveData, material>>]
             /\ result' = Append(result, made.ret)
    /\ UNCHANGED <<data, pc, abortCause, phases, texPromise, texStage, textures,
                   matPromise, matMap, processedNodes, nodes, parseExc, nodeCalls,
                   attaches, appCallbacks, cameras, activeCameraName, guiLightGroup,
                   lastVisible>>

PrimitiveNext == PrimitiveCreated

PrimitiveSpec == PrimitiveInit /\ [][PrimitiveNext]_vars

-----------------------------------------------------------------------------
(* Notions the properties are stated with *)

PhaseOrder == <<"globals", "cameras", "textures", "materials", "graph">>

\* the objects of the tree handed to the renderer
InScene == Descendants(heap, SceneObject)

\* the objects above an object, nearest first excluded: its parent, grandparent, ...
RECURSIVE Ancestors(_, _)
Ancestors(h, object) ==
    IF h[object].parent = Null THEN {}
    ELSE {h[object].parent} \cup Ancestors(h, h[object].parent)

\* the group of a node of the graph (built by createNode, or a clone of one)
IsNodeGroup(h, object) == h[object].kind = "Group" /\ h[object].nodeId # ""

\* the node a node group was built from
NodeOf(h, object) == Lookup(data.graph, h[object].nodeId)

\* a node declares a materialref that the materials mapping resolves
DeclaresMaterial(nodeData) ==
    nodeData.materialref # "" /\ nodeData.materialref \in DOMAIN materials

\* the material of the nearest node at or above an object that declares one
RECURSIVE NearestDeclared(_, _)
NearestDeclared(h, object) ==
    IF object = Null THEN Null
    ELSE IF IsNodeGroup(h, object) /\ DeclaresMaterial(NodeOf(h, object))
    THEN materials[NodeOf(h, object).materialref]
    ELSE NearestDeclared(h, h[object].parent)

HasData(nodeId) == LET nd == Lookup(data.graph, nodeId) IN nd.defined /\ ~nd.isNull

\* what a child of a node is expected to add to the node's group: the kind of
\* object and the node it stands for; <<>> when it adds nothing
ExpectedOfChild(childData) ==
    IF childData.type \in GeometryTypes \cup {"polygon"} THEN <<<<"Mesh", "">>>>
    ELSE IF childData.type \in LightTypes THEN <<<<"Group", "">>>>
    ELSE IF childData.type = "lod" /\ childData.lodNodes.present THEN <<<<"LOD", "">>>>
    ELSE IF childData.type = "noderef" /\ childData.nodeId # "" /\ HasData(childData.nodeId)
    THEN <<<<"Group", childData.nodeId>>>>
    ELSE <<>>

RECURSIVE ExpectedDirect(_, _), ExpectedRefs(_, _), ExpectedLods(_, _)
ExpectedDirect(direct, i) ==
    IF i > Len(direct) THEN <<>>
    ELSE ExpectedOfChild(IF direct[i].value.nodeId = ""
                         THEN [direct[i].value EXCEPT !.nodeId = direct[i].id]
                         ELSE direct[i].value)
         \o ExpectedDirect(direct, i + 1)
ExpectedRefs(items, i) ==
    IF i > Len(items) THEN <<>>
    ELSE ExpectedOfChild(NodeRef(items[i])) \o ExpectedRefs(items, i + 1)
ExpectedLods(items, i) ==
    IF i > Len(items) THEN <<>>
    ELSE (IF Lookup(data.graph, items[i]).lodNodes.present THEN <<<<"LOD", "">>>> ELSE <<>>)
         \o ExpectedLods(items, i + 1)

ExpectedChildren(nodeData) ==
    IF ~nodeData.hasChildren THEN <<>>
    ELSE ExpectedDirect(nodeData.direct, 1)
         \o (IF nodeData.nodesList.isArray THEN ExpectedRefs(nodeData.nodesList.items, 1)
             ELSE <<>>)
         \o (IF nodeData.lodsList.isArray THEN ExpectedLods(nodeData.lodsList.items, 1)
             ELSE <<>>)

ChildrenOf(h, object) ==
    [i \in 1..Len(h[object].children) |->
        <<h[h[object].children[i]].kind, h[h[object].children[i]].nodeId>>]

\* the node ids an LOD description is expected to give levels for
ExpectedLevels(lodData) ==
    {lodData.lodNodes.entries[i].nodeId : i \in
        {j \in 1..Len(lodData.lodNodes.entries) :
            /\ lodData.lodNodes.entries[j].nodeId # ""
            /\ lodData.lodNodes.entries[j].mindist.t = "number"
            /\ HasData(lodData.lodNodes.entries[j].nodeId)}}

LevelNodes(h, lod) == {h[h[lod].levels[i].object].nodeId : i \in 1..Len(h[lod].levels)}

LodTable == {id \in DOMAIN data.graph.table : data.graph.table[id].lodNodes.present}

-----------------------------------------------------------------------------
(* Properties *)

\* C1: the phases start in the order globals, cameras, textures, materials,
\* graph parse; once the materials phase has started no issued texture load is
\* still pending, and once the graph parse has started no issued material
\* construction is still pending.
C1_PhasesInOrder ==
    /\ \E k \in 0..Len(PhaseOrder) : phases = SubSeq(PhaseOrder, 1, k)
    /\ (Len(phases) >= 4 \/ \E m \in DOMAIN matPromise : matPromise[m] # "none")
          => \A t \in DOMAIN texPromise : texPromise[t] # "pending"
    /\ Len(phases) >= 5
          => \A m \in DOMAIN matPromise : matPromise[m] # "pending"

\* C1 witness: all five phases ran, after two texture loads and two material
\* constructions were issued and settled.
C1_Witness ==
    /\ phases = PhaseOrder
    /\ pc = "loaded"
    /\ Cardinality({t \in DOMAIN texPromise : texPromise[t] = "fulfilled"}) >= 2
    /\ Cardinality({m \in DOMAIN matPromise : matPromise[m] = "fulfilled"}) >= 2

\* C2: a texture whose load fails does not abort the pipeline, and the textures
\* that did load are registered.
C2_TextureFailureIsolated ==
    /\ (\E t \in DOMAIN texPromise : texPromise[t] = "rejected") => pc # "rejected"
    /\ \A t \in DOMAIN texPromise : texPromise[t] = "fulfilled" => t \in DOMAIN textures

\* the pipeline has nothing left to do
Settled ==
    /\ pc \in {"loaded", "rejected"}
    /\ \A t \in DOMAIN texPromise : texPromise[t] # "pending"
    /\ \A m \in DOMAIN matPromise : matPromise[m] # "pending"

\* C3: when everything has settled, a texture whose load failed is absent from
\* the texture mapping and every valid material that references it, or an id
\* the mapping does not hold, is registered with a null map, no error raised.
C3_FailedTextureNullMap ==
    Settled =>
        \A i \in DOMAIN data.materials :
            LET m == data.materials[i]
            IN (isValid(m) /\ m.textureref # "" /\ m.textureref \notin DOMAIN textures)
                => /\ abortCause # "textures"
                   /\ m.id \in DOMAIN materials
                   /\ matObjs[materials[m.id]].map = NoTexture

\* C4: two calls of createNode that return a group return the same group exactly
\* when they have the same node id and the same inherited material; the later
\* call of such a pair is a cache hit that allocates nothing, and a call that is
\* not a cache hit returns a group allocated during the call.
C4_SameInstanceIffSameKey ==
    \A i, j \in DOMAIN nodeCalls :
        (i < j /\ nodeCalls[i].ret # Null /\ nodeCalls[j].ret # Null) =>
            /\ (nodeCalls[i].ret = nodeCalls[j].ret)
                 <=> (/\ nodeCalls[i].nodeId = nodeCalls[j].nodeId
                      /\ nodeCalls[i].material = nodeCalls[j].material)
            /\ (nodeCalls[i].ret = nodeCalls[j].ret)
                 => (nodeCalls[j].hit /\ nodeCalls[j].heapAfter = nodeCalls[j].heapBefore)
            /\ ~nodeCalls[i].hit => nodeCalls[i].ret > nodeCalls[i].heapBefore
            /\ ~nodeCalls[j].hit => nodeCalls[j].ret > nodeCalls[j].heapBefore

\* C4 witness: a parse in which one pair was requested twice (a cache hit) and
\* one node id was built under two different inherited materials.
C4_Witness ==
    /\ pc = "loaded"
    /\ \E i, j \in DOMAIN nodeCalls :
          /\ i < j /\ nodeCalls[j].hit /\ nodeCalls[i].ret = nodeCalls[j].ret
    /\ \E i, j \in DOMAIN nodeCalls :
          /\ nodeCalls[i].nodeId = nodeCalls[j].nodeId
          /\ nodeCalls[i].material # nodeCalls[j].material
          /\ nodeCalls[i].ret # Null /\ nodeCalls[j].ret # Null
          /\ nodeCalls[i].ret # nodeCalls[j].ret

\* C5: in the final tree every mesh of a primitive other than a polygon is bound
\* to the material of the nearest node at or above it that declares a
\* materialref the materials mapping resolves.
C5_OwnMaterialWins ==
    pc = "loaded" =>
        \A o \in InScene :
            (heap[o].kind = "Mesh" /\ heap[o].prim # "polygon"
                /\ NearestDeclared(heap, heap[o].parent) # Null)
            => heap[o].material = NearestDeclared(heap, heap[o].parent)

\* C6: in the final tree every node group and mesh below a node that declares
\* castshadow (receiveshadow) true has castShadow (receiveShadow) true.
C6_ShadowNeverReset ==
    pc = "loaded" =>
        \A o \in InScene :
            (heap[o].kind = "Mesh" \/ IsNodeGroup(heap, o)) =>
                \A g \in Ancestors(heap, o) :
                    IsNodeGroup(heap, g) =>
                        /\ parseBoolean(NodeOf(heap, g).castshadow, FALSE)
                              => heap[o].castShadow
                        /\ parseBoolean(NodeOf(heap, g).receiveshadow, FALSE)
                              => heap[o].receiveShadow

\* C7: the object attached for a noderef or a nodesList entry is an object
\* allocated by the clone, distinct from the cached instance and from all its
\* descendants, and the material bindings and children of the cached instance
\* and its descendants are the same after the attachment as before the clone;
\* no cached instance is a child of a node group.
C7_ReferencesAttachClones ==
    /\ \A k \in DOMAIN attaches :
          /\ attaches[k].attached # attaches[k].canonical
          /\ attaches[k].attached > attaches[k].heapBefore
          /\ attaches[k].attached \notin DOMAIN attaches[k].before
          /\ attaches[k].after = attaches[k].before
          /\ heap[attaches[k].attached].parent = attaches[k].group
    /\ \A key \in DOMAIN nodes :
          heap[nodes[key]].parent # Null => ~IsNodeGroup(heap, heap[nodes[key]].parent)

\* C7 witness: a reference site with a material attached a clone of a cached
\* instance that holds a mesh bound to another material, and the clone's meshes
\* are bound to the material of the reference site.
C7_Witness ==
    /\ pc = "loaded"
    /\ \E k \in DOMAIN attaches :
          /\ attaches[k].material # Null
          /\ \E o \in DOMAIN attaches[k].before :
                /\ heap[o].kind = "Mesh"
                /\ attaches[k].before[o].material # attaches[k].material
                /\ heap[o].material = attaches[k].before[o].material
          /\ \A o \in Descendants(heap, attaches[k].attached) :
                heap[o].kind = "Mesh" => heap[o].material = attaches[k].material

\* C8: no key of the texture mapping, the materials mapping or the node cache
\* is written twice, and every key the mappings hold was written.
C8_WriteOncePerKey ==
    /\ \A i, j \in DOMAIN writes :
          (i < j /\ writes[i].map = writes[j].map) => writes[i].key # writes[j].key
    /\ \A k \in DOMAIN textures : \E i \in DOMAIN writes : writes[i] = [map |-> "textures", key |-> k]
    /\ \A k \in DOMAIN materials : \E i \in DOMAIN writes : writes[i] = [map |-> "materials", key |-> k]
    /\ \A k \in DOMAIN nodes : \E i \in DOMAIN writes : writes[i] = [map |-> "nodes", key |-> k]

\* C8 witness: the parse registered two generated ids of the same base after
\* the materials phase registered the scene's materials.
C8_Witness ==
    /\ pc = "loaded"
    /\ "m1" \in DOMAIN materials
    /\ "default_mesh_material_02" \in DOMAIN materials
    /\ \E i \in DOMAIN writes : writes[i].map = "nodes"

\* C9: no exception escapes parseGraph, also for a graph with a transform entry
\* without an amount, a transforms value that is not a list, or a direct child
\* whose value is null.
C9_NoExceptionEscapes == parseExc # "TypeError"

\* C10: a createNode call for an id without data returns null, raises nothing,
\* caches nothing and allocates nothing; after a parse every cached group holds,
\* in order, one child for each of its node's children that names something
\* buildable, and every LOD holds levels for the entries of an LOD description
\* whose nodes have data.
C10_MissingRefOmitted ==
    /\ \A k \in DOMAIN nodeCalls :
          (~HasData(nodeCalls[k].nodeId) /\ ~nodeCalls[k].hit) =>
              /\ nodeCalls[k].ret = Null
              /\ nodeCalls[k].exc = "none"
              /\ nodeCalls[k].keysAfter = nodeCalls[k].keysBefore
              /\ nodeCalls[k].heapAfter = nodeCalls[k].heapBefore
    /\ pc \in {"parsed", "loaded"} =>
          /\ \A key \in DOMAIN nodes :
                ChildrenOf(heap, nodes[key]) = ExpectedChildren(NodeOf(heap, nodes[key]))
          /\ \A o \in DOMAIN heap :
                heap[o].kind = "LOD" =>
                    \E id \in LodTable :
                        LevelNodes(heap, o) = ExpectedLevels(data.graph.table[id])

\* C10 witness: the root's nodesList names an id without data and then a node
\* with data, the LOD of the root has a level, and the parse attached the node.
C10_Witness ==
    /\ pc = "loaded"
    /\ data.graph.table["root"].nodesList.items = <<"zz", "a">>
    /\ \E k \in DOMAIN nodeCalls : nodeCalls[k].nodeId = "zz" /\ nodeCalls[k].ret = Null
    /\ \E key \in DOMAIN nodes :
          /\ heap[nodes[key]].nodeId = "root"
          /\ \E i \in DOMAIN heap[nodes[key]].children :
                heap[heap[nodes[key]].children[i]].nodeId = "a"
          /\ \E i \in DOMAIN heap[nodes[key]].children :
                /\ heap[heap[nodes[key]].children[i]].kind = "LOD"
                /\ heap[heap[nodes[key]].children[i]].levels # <<>>

\* the root of the graph cannot be resolved: no graph, no rootid, or no data
\* for the root id
RootUnresolvable ==
    \/ ~data.graph.present
    \/ data.graph.rootid = ""
    \/ ~HasData(data.graph.rootid)

\* C11: when the root of the graph cannot be resolved the pipeline does not
\* report the scene as loaded: onSceneLoadedApp is not called.
C11_RootFailureSurfaced ==
    RootUnresolvable => (pc # "loaded" /\ appCallbacks = 0)

\* the camera types MyCamera recognises ("" stands for a missing type)
KnownCameraTypes == {"", "perspective", "orthogonal"}

\* the children of a group made for direct children: meshes and light groups
DirectMade(h, group) ==
    {i \in DOMAIN h[group].children :
        \/ h[h[group].children[i]].kind = "Mesh"
        \/ (h[h[group].children[i]].kind = "Group" /\ h[h[group].children[i]].nodeId = "")}

\* the direct children of a node whose type is a primitive or a light
DirectRecognised(nodeData) ==
    {i \in DOMAIN nodeData.direct :
        nodeData.direct[i].value.type \in GeometryTypes \cup {"polygon"} \cup LightTypes}

\* C12 (as the code has it): after a parse every cached group holds one mesh or
\* light group per direct child of a recognised primitive or light type and
\* none for a child of another type; a camera of an unrecognised type has an
\* entry in the camera table, a perspective camera with the default field of
\* view, near and far.
C12_UnknownKindDefaulted ==
    /\ pc \in {"parsed", "loaded"} =>
          \A key \in DOMAIN nodes :
              Cardinality(DirectMade(heap, nodes[key]))
                 = Cardinality(DirectRecognised(NodeOf(heap, nodes[key])))
    /\ pc # "idle" =>
          \A i \in DOMAIN data.cameras.list :
              data.cameras.list[i].type \notin KnownCameraTypes =>
                  /\ data.cameras.list[i].id \in DOMAIN cameras
                  /\ cameras[data.cameras.list[i].id]
                        = PerspectiveCamera(50, NearDefault, FarDefault)

\* C12 witness: a scene loaded whose first camera has an unrecognised type and
\* is followed by another camera, and whose graph has a node with direct
\* children of unrecognised types next to a primitive and a light.
C12_Witness ==
    /\ pc = "loaded"
    /\ Len(data.cameras.list) = 2
    /\ data.cameras.list[1].type = "fisheye"
    /\ \E key \in DOMAIN nodes :
          /\ Cardinality(DirectMade(heap, nodes[key])) = 2
          /\ Len(NodeOf(heap, nodes[key]).direct) = 4

\* C12 (as stated): an element of an unrecognised type is skipped: after a
\* parse no cached group holds anything for such a child, and a camera of an
\* unrecognised type has no entry in the camera table.
C12_UnknownKindSkipped ==
    /\ pc \in {"parsed", "loaded"} =>
          \A key \in DOMAIN nodes :
              Cardinality(DirectMade(heap, nodes[key]))
                 = Cardinality(DirectRecognised(NodeOf(heap, nodes[key])))
    /\ pc # "idle" =>
          \A i \in DOMAIN data.cameras.list :
              data.cameras.list[i].type \notin KnownCameraTypes =>
                  data.cameras.list[i].id \notin DOMAIN cameras

\* the entries of a lodNodes list that createLOD makes a level of: those with
\* a nodeId, a mindist that is a number, and a node with data
ValidLodEntries(lodData) ==
    SelectSeq(lodData.lodNodes.entries,
              LAMBDA e : e.nodeId # "" /\ e.mindist.t = "number" /\ HasData(e.nodeId))

\* the levels of a LOD: the node and the distance of each, in order
LevelsOf(h, lod) ==
    [i \in DOMAIN h[lod].levels |->
        [nodeId |-> h[h[lod].levels[i].object].nodeId,
         distance |-> h[lod].levels[i].distance]]

\* the place of the i-th valid entry among the levels when they are ordered by
\* the absolute value of mindist, entries of equal distance in declared order
LevelRank(entries, i) ==
    1 + Cardinality({j \in DOMAIN entries :
                        \/ Abs(entries[j].mindist.n) < Abs(entries[i].mindist.n)
                        \/ /\ Abs(entries[j].mindist.n) = Abs(entries[i].mindist.n)
                           /\ j < i})

\* the LODs createLOD built (a clone of a LOD has a clone of a node as level)
BuiltLods == {o \in DOMAIN heap : heap[o].kind = "LOD" /\ heap[o].parent # Null
                                   /\ \A l \in DOMAIN heap[o].levels :
                                         \E key \in DOMAIN nodes :
                                            nodes[key] = heap[o].levels[l].object}

\* C13 (as the code has it): after a parse every LOD holds one level for each
\* entry of its lodNodes that has a nodeId, a numeric mindist and a node with
\* data, and no other level; the level's distance is the absolute value of
\* the declared mindist, and the levels are ordered by that distance, entries
\* of equal distance in declaration order.
C13_LodLevelsSortedByDistance ==
    pc \in {"parsed", "loaded"} =>
        \A o \in BuiltLods :
            \E id \in LodTable :
                LET entries == ValidLodEntries(data.graph.table[id])
                IN /\ Len(heap[o].levels) = Len(entries)
                   /\ \A i \in DOMAIN entries :
                         LevelsOf(heap, o)[LevelRank(entries, i)]
                            = [nodeId |-> entries[i].nodeId,
                               distance |-> Abs(entries[i].mindist.n)]

\* C13 witness: a LOD of a loaded scene built from a list with entries that are
\* skipped, whose levels are not in the order of declaration.
C13_Witness ==
    /\ pc = "loaded"
    /\ \E o \in BuiltLods : \E id \in LodTable :
          /\ Len(data.graph.table[id].lodNodes.entries) = 5
          /\ Len(heap[o].levels) = 2
          /\ o \in InScene
          /\ LevelsOf(heap, o)[1].nodeId = ValidLodEntries(data.graph.table[id])[2].nodeId

\* C13 (as stated): after a parse the levels of every LOD are the entries of
\* its lodNodes that have a nodeId, a numeric mindist and a node that can be
\* built, in declaration order, each with its declared minimum distance.
C13_LodLevelsInDeclarationOrder ==
    pc \in {"parsed", "loaded"} =>
        \A o \in BuiltLods :
            \E id \in LodTable :
                LET entries == ValidLodEntries(data.graph.table[id])
                IN LevelsOf(heap, o)
                     = [i \in DOMAIN entries |->
                          [nodeId |-> entries[i].nodeId,
                           distance |-> entries[i].mindist.n]]

\* a material of the scene description declared with a negative shininess
NegativeShininess(materialData) ==
    materialData.shininess.t = "number" /\ materialData.shininess.n < 0

\* the number of writes to the materials mapping under a key
MaterialWrites(id) ==
    Cardinality({w \in DOMAIN writes : writes[w] = [map |-> "materials", key |-> id]})

\* C14: the id of a material declared with a negative shininess is in the
\* materials mapping in no state; once the materials phase has completed (the
\* graph phase has started) every other declared material is in the mapping,
\* written once.
C14_OnlyValidMaterialsRegistered ==
    \A i \in DOMAIN data.materials :
        LET materialData == data.materials[i]
        IN IF NegativeShininess(materialData)
           THEN /\ materialData.id \notin DOMAIN materials
                /\ MaterialWrites(materialData.id) = 0
           ELSE (\E k \in DOMAIN phases : phases[k] = "graph") =>
                   /\ materialData.id \in DOMAIN materials
                   /\ MaterialWrites(materialData.id) = 1

\* C14 witness: a loaded scene that declared a material with a negative
\* shininess and another without, the second registered.
C14_Witness ==
    /\ pc = "loaded"
    /\ \E i, j \in DOMAIN data.materials :
          /\ NegativeShininess(data.materials[i])
          /\ ~NegativeShininess(data.materials[j])
          /\ data.materials[j].id \in DOMAIN materials

\* the ids under which createPrimitive registered the material of a polygon
PolygonIds == {id \in DOMAIN materials : id \notin MatIdsOf(data)}

\* C15: in the final tree every polygon mesh is bound to a material with
\* per-vertex colour that is registered under a polygon id, and to no material
\* registered under a declared id, also where the polygon is reached through a
\* noderef below a node with a material.
C15_PolygonKeepsVertexMaterial ==
    pc = "loaded" =>
        \A o \in InScene :
            (heap[o].kind = "Mesh" /\ heap[o].prim = "polygon") =>
                /\ matObjs[heap[o].material].vertexColors
                /\ \E id \in PolygonIds : materials[id] = heap[o].material
                /\ \A id \in MatIdsOf(data) \cap DOMAIN materials :
                      materials[id] # heap[o].material

\* C16: once synchronizeLightVisibility was called for a light group, the
\* group, its light and the light's target (a spot or directional light has
\* one) have visible equal to the argument of the last call.
C16_VisibilityFollowsLastCall ==
    (guiLightGroup # Null /\ lastVisible # <<>>) =>
        /\ heap[guiLightGroup].visible = lastVisible[1]
        /\ \A o \in DOMAIN heap :
              (heap[o].kind = "Light" /\ heap[o].parent = guiLightGroup) =>
                  /\ heap[o].visible = lastVisible[1]
                  /\ heap[o].target # Null =>
                        heap[heap[o].target].visible = lastVisible[1]

\* C16 witness: a directional light created enabled was toggled off; its
\* target is in the group.
C16_Witness ==
    /\ guiLightGroup # Null
    /\ lastVisible = <<FALSE>>
    /\ \E o \in DOMAIN heap :
          /\ heap[o].kind = "Light" /\ heap[o].prim = "directionallight"
          /\ heap[o].parent = guiLightGroup
          /\ heap[heap[o].target].parent = guiLightGroup
          /\ ~heap[o].visible

\* C17: the shadow camera of every directional light has left and bottom
\* negative and right and top positive, whatever the signs declared.
C17_ShadowBoundsSigned ==
    \A o \in DOMAIN heap :
        (heap[o].kind = "Light" /\ heap[o].prim = "directionallight") =>
            /\ heap[o].shadowCamera.left < 0
            /\ heap[o].shadowCamera.bottom < 0
            /\ heap[o].shadowCamera.right > 0
            /\ heap[o].shadowCamera.top > 0

\* C18: parseBoolean(value, default) returns the value itself for a boolean,
\* true for the strings "true" and "1" in any case and for a number other than
\* zero, and the default for every other input, a string that is neither
\* "true" nor "1" included.
C18_ParseBooleanFallsBackToDefault ==
    call.fn = "parseBoolean" =>
        LET value == call.args[1]
            defaultValue == call.args[2].b
        IN result[1] =
              IF value.t = "boolean" THEN value.b
              ELSE IF value.t = "string" /\ value.s \in {"true", "TRUE", "True", "1"}
              THEN TRUE
              ELSE IF value.t = "number" /\ value.n # 0 THEN TRUE
              ELSE defaultValue

\* a value is a number within [lo, hi]
InRange(value, lo, hi) == value.t = "number" /\ value.n >= lo /\ value.n <= hi

\* C19 (as the code has it): validatePenumbra and validateDecay return a value
\* in range unchanged and the default for any other; toValidOpacity returns a
\* number in [0, 1] unchanged, the nearest bound for a number out of range,
\* and the default only for what is not a number.
C19_OpacityClampedOthersDefaulted ==
    LET value == call.args[1]
        defaultValue == call.args[2].n
    IN /\ call.fn = "validatePenumbra" =>
             result[1] = IF InRange(value, 0, 1) THEN value.n ELSE defaultValue
       /\ call.fn = "validateDecay" =>
             result[1] = IF InRange(value, 0, 2) THEN value.n ELSE defaultValue
       /\ call.fn = "toValidOpacity" =>
             result[1] = IF InRange(value, 0, 1) THEN value.n
                         ELSE IF value.t # "number" THEN defaultValue
                         ELSE IF value.n < 0 THEN 0 ELSE 1

\* C19 witness: toValidOpacity was called with a number below the range and a
\* default that is not the lower bound.
C19_Witness ==
    /\ call.fn = "toValidOpacity"
    /\ call.args[1].t = "number" /\ call.args[1].n < 0
    /\ call.args[2].n = 1
    /\ result = <<0>>

\* C19 (as stated): toValidOpacity, validatePenumbra and validateDecay return a
\* value in range unchanged and the default for a value out of range, never
\* the nearest bound.
C19_OutOfRangeDefaulted ==
    LET value == call.args[1]
        defaultValue == call.args[2].n
    IN /\ call.fn \in {"validatePenumbra", "toValidOpacity"} =>
             result[1] = IF InRange(value, 0, 1) THEN value.n ELSE defaultValue
       /\ call.fn = "validateDecay" =>
             result[1] = IF InRange(value, 0, 2) THEN value.n ELSE defaultValue

\* the two numbers are both negative or both positive
SameSign(lo, hi) == (lo < 0 /\ hi < 0) \/ (lo > 0 /\ hi > 0)

\* C20 (as the code has it): validateLeftRight and validateBottomTop return the
\* defaults when either input is zero; for two inputs of the same sign they
\* return the first made negative and the second made positive; inputs of
\* opposite signs are returned as they are.
C20_ZeroDefaultedSameSignNormalised ==
    call.fn \in {"validateLeftRight", "validateBottomTop"} =>
        LET lo == call.args[1].n
            hi == call.args[2].n
        IN result = IF lo = 0 \/ hi = 0 THEN <<call.args[3].n, call.args[4].n>>
                    ELSE IF SameSign(lo, hi) THEN <<-Abs(lo), Abs(hi)>>
                    ELSE <<lo, hi>>

\* C20 witness: validateLeftRight was called with two positive numbers.
C20_Witness ==
    /\ call.fn = "validateLeftRight"
    /\ call.args[1].n > 0 /\ call.args[2].n > 0
    /\ result = <<-call.args[1].n, call.args[2].n>>

\* C20 (as stated): validateLeftRight and validateBottomTop return the pair of
\* defaults whenever either input is zero or both have the same sign.
C20_ZeroOrSameSignDefaulted ==
    call.fn \in {"validateLeftRight", "validateBottomTop"} =>
        LET lo == call.args[1].n
            hi == call.args[2].n
        IN (lo = 0 \/ hi = 0 \/ SameSign(lo, hi)) =>
              result = <<call.args[3].n, call.args[4].n>>

\* C21: for every pair of inputs neither of which is zero, validateLeftRight
\* and validateBottomTop return the first made negative and the second made
\* positive, so that the pair returned has lo < 0 < hi, also for lo > 0 > hi.
C21_NonZeroPairNormalised ==
    (call.fn \in {"validateLeftRight", "validateBottomTop"}
        /\ call.args[1].n # 0 /\ call.args[2].n # 0) =>
        /\ result = <<-Abs(call.args[1].n), Abs(call.args[2].n)>>
        /\ result[1] < 0 /\ 0 < result[2]

\* C22: for every pair of raw near and far values, what validateNear and then
\* validateFar produce has near >= 0 and far > near.
C22_FarBeyondNear ==
    call.fn = "validateNearFar" => (result[1] >= 0 /\ result[2] > result[1])

\* C23: for every input, a missing object, a missing channel and a channel
\* that is not numeric included, each channel parseColor returns is a number
\* within [0, 1]: the value over 255, clamped, and 0 for a missing channel.
C23_ChannelsWithinUnit ==
    call.fn = "parseColor" =>
        \A i \in 1..3 :
            LET channel == <<call.args[1].r, call.args[1].g, call.args[1].b>>[i]
            IN /\ ~result[i].nan
               /\ result[i].n >= 0 /\ result[i].n <= ChannelMax
               /\ (call.args[1].defined /\ channel.t = "number") =>
                     result[i].n = Max(0, Min(ChannelMax, channel.n))
               /\ (~call.args[1].defined \/ channel.t = "undefined") =>
                     result[i].n = 0

\* C24: when the material of the primitive built last has a colour map, the
\* repeat of the map is the area of the triangle for a triangle, (parts_u,
\* parts_v) for a NURBS surface and the width and height of the bounding box
\* for the other kinds, each over texlength_s and texlength_t.
C24_RepeatFromFootprint ==
    (call.fn = "createPrimitive" /\ call.args[1].type \in GeometryTypes
        /\ call.args[2] # Null /\ matObjs[call.args[2]].map # NoTexture) =>
        texRepeat[matObjs[call.args[2]].map]
           = SpecialRepeat(call.args[1], matObjs[call.args[2]].texlength_s,
                           matObjs[call.args[2]].texlength_t)

\* C28: createPrimitive called with a material leaves the materials mapping,
\* that material and the repeat of its map as they were.
C28_SuppliedMaterialUntouched ==
    [][(call'.fn = "createPrimitive" /\ call'.args[2] # Null) =>
          /\ materials' = materials
          /\ matObjs'[call'.args[2]] = matObjs[call'.args[2]]
          /\ texRepeat' = texRepeat]_vars

\* C25: parseGraph terminates for every graph table, one in which a node
\* reaches itself again through a nodesList entry included: the recursion of
\* createNode ends of itself and never exhausts the call stack.
C25_RecursionEnds ==
    /\ parseExc # "RangeError"
    /\ \A c \in DOMAIN nodeCalls : nodeCalls[c].exc # "RangeError"

\* the node groups on the placement path of an object: the object itself, if
\* it is a node group, and the node groups above it
PlacementPath(h, object) ==
    {g \in Ancestors(h, object) \cup {object} : IsNodeGroup(h, g)}

\* C26: in the final tree a node group or a mesh has castShadow (receiveShadow)
\* true only if a node on its own placement path declares castshadow
\* (receiveshadow): the flags of one placement of a node used more than once
\* owe nothing to another placement.
C26_ShadowOnlyFromOwnPath ==
    pc = "loaded" =>
        \A o \in InScene :
            (heap[o].kind = "Mesh" \/ IsNodeGroup(heap, o)) =>
                /\ heap[o].castShadow =>
                      \E g \in PlacementPath(heap, o) :
                          parseBoolean(NodeOf(heap, g).castshadow, FALSE)
                /\ heap[o].receiveShadow =>
                      \E g \in PlacementPath(heap, o) :
                          parseBoolean(NodeOf(heap, g).receiveshadow, FALSE)

\* the ids of the cameras the scene description declares
DeclaredCameras == {data.cameras.list[i].id : i \in DOMAIN data.cameras.list}

\* C27: after cameraRendering every camera the scene declares is in the camera
\* table and the active camera name is the id of a camera in the table,
\* whatever the ids of the scene, 'Perspective' included: the clearing of the
\* built-in camera removes no camera of the scene.
C27_DeclaredCamerasKept ==
    pc # "idle" =>
        /\ DeclaredCameras \subseteq DOMAIN cameras
        /\ activeCameraName \in DOMAIN cameras

\* the entries of a type in a transforms list
EntriesOfType(entries, type) == {i \in DOMAIN entries : entries[i].type = type}

\* the last entry of a type in a transforms list that has one
LastOfType(entries, type) ==
    entries[CHOOSE i \in EntriesOfType(entries, type) :
               \A j \in EntriesOfType(entries, type) : j <= i]

\* C29: after applyTransformations the position, the rotation and the scale of
\* the group are the validated values of the last translate, the last rotate
\* and the last scale entry of the list, and the defaults of a new group for a
\* type the list has no entry of: entries before the last of a type, and the
\* order of entries of different types, make no difference.
C29_LastEntryWinsPerType ==
    call.fn = "applyTransformations" =>
        LET entries == call.args[1]
            group == heap[result[1]]
        IN /\ group.position =
                 IF EntriesOfType(entries, "translate") = {} THEN <<0, 0, 0>>
                 ELSE LET last == LastOfType(entries, "translate")
                      IN <<toValidFloat(last.x, 0), toValidFloat(last.y, 0),
                           toValidFloat(last.z, 0)>>
           /\ group.rotation =
                 IF EntriesOfType(entries, "rotate") = {} THEN <<0, 0, 0>>
                 ELSE LET last == LastOfType(entries, "rotate")
                      IN <<validateAngle(last.x, -360, 360, 0),
                           validateAngle(last.y, -360, 360, 0),
                           validateAngle(last.z, -360, 360, 0)>>
           /\ group.scale =
                 IF EntriesOfType(entries, "scale") = {} THEN <<1, 1, 1>>
                 ELSE LET last == LastOfType(entries, "scale")
                      IN <<toValidFloat(last.x, 1), toValidFloat(last.y, 1),
                           toValidFloat(last.z, 1)>>

\* C29 witness: a list of two translations with a rotation between them was
\* applied, and the position is that of the second translation.
C29_Witness ==
    /\ call.fn = "applyTransformations"
    /\ Len(call.args[1]) = 3
    /\ call.args[1][1] = Transform("translate", 1, 2, 3)
    /\ call.args[1][2].type = "rotate"
    /\ call.args[1][3].type = "translate"
    /\ heap[result[1]].position = <<4, 0, 6>>

\* C30: after a parse every level of every LOD is a child of that LOD, and no
\* object is among the children of two parents, also when two LODs of the
\* same node are built from the same description under the same material.
C30_LevelsStayAttached ==
    pc \in {"parsed", "loaded"} =>
        /\ \A o \in BuiltLods : \A l \in DOMAIN heap[o].levels :
              /\ heap[heap[o].levels[l].object].parent = o
              /\ \E i \in DOMAIN heap[o].children :
                    heap[o].children[i] = heap[o].levels[l].object
        /\ \A p1, p2 \in DOMAIN heap :
              (\E i \in DOMAIN heap[p1].children : \E j \in DOMAIN heap[p2].children :
                  heap[p1].children[i] = heap[p2].children[j]) => p1 = p2

====
